---- MODULE Spec2Model ----
(***************************************************************************)
(* A model of the aa-accounting ledger and tax engine.                     *)
(*                                                                         *)
(*   SpecLedger : post_ledger_entry, UnclaimedTax reconciliation, one call *)
(*                at a time (services.py, models/accounting.py)            *)
(*   SpecConc   : the statements of add_ledger_entry interleaved between   *)
(*                concurrent callers                                       *)
(*   SpecRate   : CorpTaxHistory.get_tax_rate as a pure function           *)
(*   SpecTax    : CorpTaxConfiguration.send_invoices, run after run        *)
(*   SpecAgg    : one aggregation of a tax rule as a pure function         *)
(*   SpecEsi    : send_invoices while the ESI rate lookup comes and goes   *)
(*   SpecPay    : check_for_payments, run after run (tasks.py)             *)
(*   SpecFlight : send_invoices_for_config_id queued on several workers    *)
(*                                                                         *)
(* Money is counted in whole ISK; times are counted in half days.          *)
(***************************************************************************)
EXTENDS Integers, Sequences, FiniteSets, TLC

VARIABLES
    ownership,     \* character -> what get_user_from_evecharacter returns
    userAccount,   \* UserAccount table: user -> [exists, balance]
    corpAccount,   \* CorpAccount table: corporation -> [exists, balance]
    userLedger,    \* UserLedgerEntry table, in insertion order
    corpLedger,    \* CorpLedgerEntry table, in insertion order
    unclaimed,     \* UnclaimedTax table, in insertion order
    ncalls,        \* number of calls made so far
    last,          \* the latest call of SpecLedger: arguments and outcome
    pc,            \* SpecConc: caller -> the statement it is about to run
    frame,         \* SpecConc: caller -> its local variables
    taxHistory,    \* CorpTaxHistory table: corporation -> set of rows
    rateArgs,      \* SpecRate: the arguments of get_tax_rate
    rateResult,    \* SpecRate: what get_tax_rate returned
    now,           \* tzone.now()
    charJournal,   \* ids of the CharacterWalletJournalEntry rows present
    corpJournal,   \* ids of the CorporationWalletJournalEntry rows present
    taxedDefined,  \* whether the journal models have a relation named `taxed`
    taxed,         \* journal rows whose `taxed` relation has processed = True
    plan,          \* the CorpTaxConfiguration being run
    taxRecords,    \* CorpTaxRecord table, in insertion order
    charMarkers,   \* CharacterPayoutTaxRecord: journal row id -> record (0: none)
    corpMarkers,   \* CorporatePayoutTaxRecord: journal row id -> record (0: none)
    nruns,         \* number of send_invoices calls made so far
    lastRun,       \* the latest send_invoices call and its outcome
    esiUp,         \* whether ESI answers GetCorporationsCorporationId
    aggData,       \* SpecAgg: the rows handed to an aggregation
    aggOut,        \* SpecAgg: the aggregation run last and what it returned
    bankJournal,   \* SpecPay: the wallet journal rows of the bank corporation
    lastPayment,   \* AccountingConfiguration.last_payment_datetime
    deposited,     \* how many times a journal row was handed to post_ledger_entry
    payRuns,       \* check_for_payments runs so far
    payLast,       \* the latest check_for_payments run and what it posted
    onceLock,      \* SpecFlight: the QueueOnce lock of send_invoices_for_config_id(1)
    flightQueue,   \* messages of the task waiting for a worker
    flightPc,      \* where each worker is in the task
    flightFrame,   \* what each worker got from get_charge_data
    flightCalls,   \* apply_async calls so far
    flightRefused  \* apply_async calls the lock turned away

ledgerVars == <<ownership, userAccount, corpAccount, userLedger, corpLedger,
                unclaimed, ncalls, last>>
concVars == <<pc, frame>>
rateVars == <<taxHistory, rateArgs, rateResult>>
taxVars == <<now, charJournal, corpJournal, taxedDefined, taxed, plan, taxRecords,
             charMarkers, corpMarkers, nruns, lastRun>>
aggVars == <<esiUp, aggData, aggOut>>
payVars == <<bankJournal, lastPayment, deposited, payRuns, payLast>>
flightVars == <<onceLock, flightQueue, flightPc, flightFrame, flightCalls, flightRefused>>
extVars == <<aggVars, payVars, flightVars>>

----
\* Bounds of the model

MaxCalls == 2

----
\* The values the model draws from

None == "None"
SentinelUser == "deleted"
Users == {"u1"}
AllUsers == Users \cup {SentinelUser}
Characters == {"c1", "c2"}
Corps == {"corpA", "corpB"}
TargetCorps == {"corpA"}
TargetCharacters == {"c1"}
OtherTargets == {"other"}
Targets == AllUsers \cup TargetCharacters \cup TargetCorps \cup OtherTargets
OwnerResults == AllUsers \cup {None}

AmountInputs == {0, 30, 100}
Descriptions == {"dues"}
EntryTypeInputs == {"deposit", "tax", "fine", "adjustment", "charge", "bogus"}

LEDGER_ENTRY_TYPES ==
    << <<"deposit", "Deposit">>, <<"tax", "Tax">>, <<"fine", "Fine">>,
       <<"adjustment", "Adjustment">>, <<"charge", "Charge">> >>

----
\* Helpers

RECURSIVE SumAmounts(_)
SumAmounts(s) ==
    IF s = <<>> THEN 0 ELSE s[1].amount + SumAmounts(Tail(s))

EntriesOf(ledger, acct) == SelectSeq(ledger, LAMBDA e : e.account = acct)

RECURSIVE SumBalances(_, _)
SumBalances(accts, keys) ==
    IF keys = {} THEN 0
    ELSE LET k == CHOOSE x \in keys : TRUE
         IN  (IF accts[k].exists THEN accts[k].balance ELSE 0)
             + SumBalances(accts, keys \ {k})

NoAccount == [exists |-> FALSE, balance |-> 0]

----
\* services.py: post_ledger_entry, and the model methods it calls

RecognisedTypes == {LEDGER_ENTRY_TYPES[i][1] : i \in DOMAIN LEDGER_ENTRY_TYPES}

InvalidEntryType(entry_type) == entry_type \notin RecognisedTypes

InvalidAmountLax(amount) == amount < 0
InvalidAmount(amount) == amount <= 0

LedgerAmountUnsigned(entry_type, amount) == amount
LedgerAmount(entry_type, amount) ==
    IF entry_type = "deposit" THEN amount ELSE -amount

\* objects.get_or_create(...): the row exists afterwards; the call returns the
\* pair (object, created)
GetOrCreateTable(accts, key) ==
    IF accts[key].exists THEN accts
    ELSE [accts EXCEPT ![key] = [exists |-> TRUE, balance |-> 0]]

GetOrCreateResult(accts, key) ==
    [tag |-> "tuple", object |-> [tag |-> "account", key |-> key],
     created |-> ~accts[key].exists]

\* <Ledger>Entry.objects.create(...): balance takes the field default 0.00.
\* created: every caller leaves the date of UserAccount.add_ledger_entry None,
\* which makes it timezone.now(); CorpLedgerEntry.created is auto_now_add
NewEntry(acct, amount, description, entry_type, character) ==
    [account |-> acct, amount |-> amount, balance |-> 0,
     description |-> description, entry_type |-> entry_type,
     character |-> character, created |-> now]

\* filter(pk=self.pk).update(balance=F("balance") + amount): the database adds
\* to the stored value; the value cached on the instance plays no part
BalanceUpdateOverwrite(stored, cached, amount) == amount
BalanceUpdateCached(stored, cached, amount) == cached + amount
BalanceUpdate(stored, cached, amount) == stored + amount

\* UserAccount.add_ledger_entry, all of it, on the tables
UserAddLedgerEntry(accts, ledger, acct, amount, description, entry_type, character) ==
    LET cached   == accts[acct].balance
        created  == Append(ledger, NewEntry(acct, amount, description, entry_type, character))
        idx      == Len(created)
        updated  == [accts EXCEPT ![acct].balance =
                        BalanceUpdate(accts[acct].balance, cached, amount)]
        reloaded == updated[acct].balance
    IN  [accounts |-> updated,
         ledger   |-> [created EXCEPT ![idx].balance = reloaded]]

\* CorpAccount.add_ledger_entry, all of it, on the tables
CorpAddLedgerEntry(accts, ledger, acct, amount, description, entry_type, character) ==
    LET cached   == accts[acct].balance
        created  == Append(ledger, NewEntry(acct, amount, description, entry_type, character))
        idx      == Len(created)
        updated  == [accts EXCEPT ![acct].balance =
                        BalanceUpdate(accts[acct].balance, cached, amount)]
        reloaded == updated[acct].balance
    IN  [accounts |-> updated,
         ledger   |-> [created EXCEPT ![idx].balance = reloaded]]

\* UnclaimedTax.objects.create(character=, amount=, description=, type=)
NewUnclaimedDropped(character, amount, description, entry_type) ==
    [character |-> character, amount |-> 0,
     description |-> description, type |-> entry_type]
NewUnclaimed(character, amount, description, entry_type) ==
    [character |-> character, amount |-> amount,
     description |-> description, type |-> entry_type]

\* the sentinel test of post_ledger_entry: `not user or user.username == "deleted"`
NoUserFoundLax(user) == user = None
NoUserFound(user) == user = None \/ user = SentinelUser

Outcome(op, status, target, amount, description, entry_type) ==
    [seq |-> ncalls + 1, op |-> op, status |-> status, target |-> target,
     amount |-> amount, description |-> description, entry_type |-> entry_type]

PostToUser(user, ledger_amount, description, entry_type, character) ==
    LET accts == GetOrCreateTable(userAccount, user)
        got   == GetOrCreateResult(userAccount, user)
        res   == UserAddLedgerEntry(accts, userLedger, got.object.key, ledger_amount,
                                    description, entry_type, character)
    IN  /\ userAccount' = res.accounts
        /\ userLedger' = res.ledger
        /\ UNCHANGED <<corpAccount, corpLedger, unclaimed>>

PostToCorp(corp, ledger_amount, description, entry_type) ==
    LET accts == GetOrCreateTable(corpAccount, corp)
        got   == GetOrCreateResult(corpAccount, corp)
        res   == CorpAddLedgerEntry(accts, corpLedger, got.object.key, ledger_amount,
                                    description, entry_type, None)
    IN  /\ corpAccount' = res.accounts
        /\ corpLedger' = res.ledger
        /\ UNCHANGED <<userAccount, userLedger, unclaimed>>

PostLedgerEntry(target, amount, description, entry_type) ==
    /\ ncalls < MaxCalls
    /\ ncalls' = ncalls + 1
    /\ UNCHANGED ownership
    /\ IF InvalidEntryType(entry_type) \/ InvalidAmount(amount)
       THEN /\ last' = Outcome("post_ledger_entry", "ValueError", target, amount,
                               description, entry_type)
            /\ UNCHANGED <<userAccount, corpAccount, userLedger, corpLedger, unclaimed>>
       ELSE LET ledger_amount == LedgerAmount(entry_type, amount) IN
            IF target \in AllUsers
            THEN /\ PostToUser(target, ledger_amount, description, entry_type, None)
                 /\ last' = Outcome("post_ledger_entry", "UserLedgerEntry", target,
                                    amount, description, entry_type)
            ELSE IF target \in Characters
            THEN LET user == ownership[target] IN
                 IF NoUserFound(user)
                 THEN /\ unclaimed' = Append(unclaimed,
                              NewUnclaimed(target, ledger_amount, description, entry_type))
                      /\ last' = Outcome("post_ledger_entry", "UnclaimedTax", target,
                                         amount, description, entry_type)
                      /\ UNCHANGED <<userAccount, corpAccount, userLedger, corpLedger>>
                 ELSE /\ PostToUser(user, ledger_amount, description, entry_type, target)
                      /\ last' = Outcome("post_ledger_entry", "UserLedgerEntry", target,
                                         amount, description, entry_type)
            ELSE IF target \in Corps
            THEN /\ PostToCorp(target, ledger_amount, description, entry_type)
                 /\ last' = Outcome("post_ledger_entry", "CorpLedgerEntry", target,
                                    amount, description, entry_type)
            ELSE /\ last' = Outcome("post_ledger_entry", "TypeError", target, amount,
                                    description, entry_type)
                 /\ UNCHANGED <<userAccount, corpAccount, userLedger, corpLedger, unclaimed>>

----
\* models/accounting.py: UnclaimedTax._reconcile_to_user and reconcile_all

\* `user_account.add_ledger_entry` is looked up on whatever get_or_create
\* returned; only an account object has that method
HasAddLedgerEntry(obj) == obj.tag = "account"

ReconcileNote(description) == <<description, "Reconciled from unclaimed entry">>

RemoveAt(s, i) == SubSeq(s, 1, i - 1) \o SubSeq(s, i + 1, Len(s))

ReconcileToUser(i) ==
    /\ ncalls < MaxCalls
    /\ i \in DOMAIN unclaimed
    /\ ncalls' = ncalls + 1
    /\ UNCHANGED <<ownership, corpAccount, corpLedger>>
    /\ LET self == unclaimed[i]
           user == ownership[self.character]
       IN  IF user = None
           THEN /\ last' = Outcome("_reconcile_to_user", "False", self.character,
                                   self.amount, self.description, self.type)
                /\ UNCHANGED <<userAccount, userLedger, unclaimed>>
           ELSE LET user_account == GetOrCreateResult(userAccount, user)
                    accts == GetOrCreateTable(userAccount, user)
                IN  IF HasAddLedgerEntry(user_account)
                    THEN LET res == UserAddLedgerEntry(accts, userLedger,
                                        user_account.key, self.amount,
                                        ReconcileNote(self.description), self.type,
                                        self.character)
                         IN  /\ userAccount' = res.accounts
                             /\ userLedger' = res.ledger
                             /\ unclaimed' = RemoveAt(unclaimed, i)
                             /\ last' = Outcome("_reconcile_to_user", "True",
                                                self.character, self.amount,
                                                self.description, self.type)
                    ELSE /\ userAccount' = accts
                         /\ UNCHANGED <<userLedger, unclaimed>>
                         /\ last' = Outcome("_reconcile_to_user", "AttributeError",
                                            self.character, self.amount,
                                            self.description, self.type)

\* the fields of UnclaimedTax that a queryset filter can name
UnclaimedTaxFields == {"id", "character", "amount", "description", "type", "created"}

ReconcileAll ==
    /\ ncalls < MaxCalls
    /\ ncalls' = ncalls + 1
    /\ UNCHANGED ownership
    /\ IF "reconciled" \in UnclaimedTaxFields
       THEN \* the loop over the selected rows is not reached: see ReconcileToUser
            /\ last' = Outcome("reconcile_all", "count", None, 0, None, None)
            /\ UNCHANGED <<userAccount, corpAccount, userLedger, corpLedger, unclaimed>>
       ELSE /\ last' = Outcome("reconcile_all", "FieldError", None, 0, None, None)
            /\ UNCHANGED <<userAccount, corpAccount, userLedger, corpLedger, unclaimed>>

\* The authentication service links or unlinks a character (outside this
\* repository); post_ledger_entry and _reconcile_to_user read the result
SetOwnership(c, o) ==
    /\ o # ownership[c]
    /\ ownership' = [ownership EXCEPT ![c] = o]
    /\ UNCHANGED <<userAccount, corpAccount, userLedger, corpLedger, unclaimed,
                   ncalls, last>>

----
\* SpecConc: callers of post_ledger_entry run at the same time; each database
\* statement of add_ledger_entry is one step

MaxConcCalls == 2

Procs == {"p1", "p2"}

NoFrame == [account |-> None, amount |-> 0, description |-> None,
            entry_type |-> None, character |-> None, cached |-> 0, entry |-> 0]

ConcTargets == Users \cup TargetCharacters \cup TargetCorps
ConcAmounts == {30, 100}
ConcEntryTypes == {"deposit", "tax"}

Goto(p, label) == pc' = [pc EXCEPT ![p] = label]

\* post_ledger_entry up to and including get_or_create
ConcCall(p, target, amount, description, entry_type) ==
    /\ pc[p] = "idle"
    /\ ncalls < MaxConcCalls
    /\ ncalls' = ncalls + 1
    /\ ~(InvalidEntryType(entry_type) \/ InvalidAmount(amount))
    /\ UNCHANGED <<ownership, userLedger, corpLedger, last>>
    /\ LET ledger_amount == LedgerAmount(entry_type, amount)
           user == IF target \in Characters THEN ownership[target] ELSE target
           character == IF target \in Characters THEN target ELSE None
           local(acct, cached) ==
               [account |-> acct, amount |-> ledger_amount,
                description |-> description, entry_type |-> entry_type,
                character |-> character, cached |-> cached, entry |-> 0]
       IN  IF target \in Corps
           THEN /\ corpAccount' = GetOrCreateTable(corpAccount, target)
                /\ frame' = [frame EXCEPT ![p] = local(target, corpAccount'[target].balance)]
                /\ Goto(p, "corp_create")
                /\ UNCHANGED <<userAccount, unclaimed>>
           ELSE IF target \in Characters /\ NoUserFound(user)
           THEN /\ unclaimed' = Append(unclaimed,
                        NewUnclaimed(target, ledger_amount, description, entry_type))
                /\ UNCHANGED <<userAccount, corpAccount, pc, frame>>
           ELSE /\ userAccount' = GetOrCreateTable(userAccount, user)
                /\ frame' = [frame EXCEPT ![p] = local(user, userAccount'[user].balance)]
                /\ Goto(p, "user_create")
                /\ UNCHANGED <<corpAccount, unclaimed>>

\* UserLedgerEntry.objects.create(...)
UserCreateEntry(p) ==
    /\ pc[p] = "user_create"
    /\ userLedger' = Append(userLedger,
            NewEntry(frame[p].account, frame[p].amount, frame[p].description,
                     frame[p].entry_type, frame[p].character))
    /\ frame' = [frame EXCEPT ![p].entry = Len(userLedger) + 1]
    /\ Goto(p, "user_update")
    /\ UNCHANGED <<ownership, userAccount, corpAccount, corpLedger, unclaimed, ncalls, last>>

\* UserAccount.objects.filter(pk=self.pk).update(balance=F("balance") + amount)
UserUpdateBalance(p) ==
    /\ pc[p] = "user_update"
    /\ userAccount' = [userAccount EXCEPT ![frame[p].account].balance =
            BalanceUpdate(userAccount[frame[p].account].balance,
                          frame[p].cached, frame[p].amount)]
    /\ Goto(p, "user_refresh")
    /\ UNCHANGED <<ownership, corpAccount, userLedger, corpLedger, unclaimed, ncalls,
                   last, frame>>

\* self.refresh_from_db(fields=["balance"])
UserRefresh(p) ==
    /\ pc[p] = "user_refresh"
    /\ frame' = [frame EXCEPT ![p].cached = userAccount[frame[p].account].balance]
    /\ Goto(p, "user_save")
    /\ UNCHANGED <<ownership, userAccount, corpAccount, userLedger, corpLedger,
                   unclaimed, ncalls, last>>

\* entry.balance = self.balance; entry.save(update_fields=["balance"])
UserSaveEntry(p) ==
    /\ pc[p] = "user_save"
    /\ userLedger' = [userLedger EXCEPT ![frame[p].entry].balance = frame[p].cached]
    /\ frame' = [frame EXCEPT ![p] = NoFrame]
    /\ Goto(p, "idle")
    /\ UNCHANGED <<ownership, userAccount, corpAccount, corpLedger, unclaimed, ncalls, last>>

\* CorpLedgerEntry.objects.create(...)
CorpCreateEntry(p) ==
    /\ pc[p] = "corp_create"
    /\ corpLedger' = Append(corpLedger,
            NewEntry(frame[p].account, frame[p].amount, frame[p].description,
                     frame[p].entry_type, frame[p].character))
    /\ frame' = [frame EXCEPT ![p].entry = Len(corpLedger) + 1]
    /\ Goto(p, "corp_update")
    /\ UNCHANGED <<ownership, userAccount, corpAccount, userLedger, unclaimed, ncalls, last>>

\* CorpAccount.objects.filter(pk=self.pk).update(balance=F("balance") + amount)
CorpUpdateBalance(p) ==
    /\ pc[p] = "corp_update"
    /\ corpAccount' = [corpAccount EXCEPT ![frame[p].account].balance =
            BalanceUpdate(corpAccount[frame[p].account].balance,
                          frame[p].cached, frame[p].amount)]
    /\ Goto(p, "corp_refresh")
    /\ UNCHANGED <<ownership, userAccount, userLedger, corpLedger, unclaimed, ncalls,
                   last, frame>>

\* self.refresh_from_db(fields=["balance"])
CorpRefresh(p) ==
    /\ pc[p] = "corp_refresh"
    /\ frame' = [frame EXCEPT ![p].cached = corpAccount[frame[p].account].balance]
    /\ Goto(p, "corp_save")
    /\ UNCHANGED <<ownership, userAccount, corpAccount, userLedger, corpLedger,
                   unclaimed, ncalls, last>>

\* entry.balance = self.balance; entry.save(update_fields=["balance"])
CorpSaveEntry(p) ==
    /\ pc[p] = "corp_save"
    /\ corpLedger' = [corpLedger EXCEPT ![frame[p].entry].balance = frame[p].cached]
    /\ frame' = [frame EXCEPT ![p] = NoFrame]
    /\ Goto(p, "idle")
    /\ UNCHANGED <<ownership, userAccount, corpAccount, userLedger, unclaimed, ncalls, last>>

----
\* models/taxes.py, managers.py: the rate history and CorpTaxHistory.get_tax_rate
\* Dates of the rate history are written yyyymmdd, which orders as the dates do.

MaxHist == 2

StartDates == {20240101, 20240301, 20240601}
QueryDates == {20231201, 20240101, 20240301, 20240601, 20240701}
RateValues == {5, 8}
DefaultInputs == {10, 20}

HistoryRows == [start_date : StartDates, tax_rate : RateValues]

\* lists of rows in any order; (corp, start_date) is unique in the table
Histories ==
    {h \in UNION {[1..n -> HistoryRows] : n \in 0..MaxHist} :
        \A i, j \in DOMAIN h : i # j => h[i].start_date # h[j].start_date}

RowsOf(h) == {h[i] : i \in DOMAIN h}

\* what the CorpTaxHistory table can hold for a corporation
StoredHistories ==
    {rows \in SUBSET HistoryRows :
        /\ Cardinality(rows) <= MaxHist
        /\ \A x, y \in rows : x # y => x.start_date # y.start_date}

\* the ids get_tax_rate is called with: a corporation's (taxes.py 602) or a
\* character's (taxes.py 349)
RateCorpIds == TargetCorps \cup TargetCharacters

\* list.sort(key=start_date): a stable insertion into ascending order
RECURSIVE InsertByStartDate(_, _)
InsertByStartDate(sorted, row) ==
    IF sorted = <<>> THEN <<row>>
    ELSE IF sorted[Len(sorted)].start_date <= row.start_date
         THEN Append(sorted, row)
         ELSE Append(InsertByStartDate(SubSeq(sorted, 1, Len(sorted) - 1), row),
                     sorted[Len(sorted)])

RECURSIVE SortFrom(_, _, _)
SortFrom(list, i, sorted) ==
    IF i > Len(list) THEN sorted
    ELSE SortFrom(list, i + 1, InsertByStartDate(sorted, list[i]))

SortByStartDate(list) == SortFrom(list, 1, <<>>)

\* CorpTaxHistoryManager.get_corp_tax_list: the corporation's rows, ordered by
\* start_date; an id that is not a corporation's has no rows
RECURSIVE OrderRows(_)
OrderRows(rows) ==
    IF rows = {} THEN <<>>
    ELSE LET first == CHOOSE r \in rows : \A o \in rows : r.start_date <= o.start_date
         IN  <<first>> \o OrderRows(rows \ {first})

GetCorpTaxList(corp_id) ==
    IF corp_id \in DOMAIN taxHistory THEN OrderRows(taxHistory[corp_id]) ELSE <<>>

StartsBeforeOrOn(start_date, date) == start_date <= date
StartsBefore(start_date, date) == start_date < date

\* the for loop of get_tax_rate over the sorted list, from position i
RECURSIVE WalkRates(_, _, _, _)
WalkRates(tax_rates, i, date, rate) ==
    IF i > Len(tax_rates) THEN rate
    ELSE IF StartsBefore(tax_rates[i].start_date, date)
         THEN WalkRates(tax_rates, i + 1, date, tax_rates[i].tax_rate)
         ELSE rate

GetTaxRate(corp_id, date, tax_rates, default) ==
    LET used == IF tax_rates = <<>> THEN GetCorpTaxList(corp_id) ELSE tax_rates
    IN  WalkRates(SortByStartDate(used), 1, date, default)

NoRateArgs == [corp_id |-> None, date |-> 0, tax_rates |-> <<>>, default |-> 0]

\* SpecRate: one call of get_tax_rate on the stored arguments
CallGetTaxRate ==
    /\ rateResult = -1
    /\ rateResult' = GetTaxRate(rateArgs.corp_id, rateArgs.date,
                                rateArgs.tax_rates, rateArgs.default)
    /\ UNCHANGED <<taxHistory, rateArgs>>

----
\* models/taxes.py: the tax rules, calculate_tax and send_invoices
\* Times are counted in half days from MIN_DATE.

MaxNow == 14
MaxRuns == 2

UnitsPerDay == 2
Days(n) == n * UnitsPerDay
MIN_DATE == 0
MAX_DATE == Days(5000)
OVERLAP_DAYS == 2
EpochDays == 5
FirstNow == Days(6) + 1

Range(list) == {list[i] : i \in DOMAIN list}

\* The registry of characters, users and corporations (Alliance Auth)
CharacterInfo ==
    [c \in Characters |->
        IF c = "c1" THEN [corporation_id |-> "corpA", alliance_id |-> "allyX"]
                    ELSE [corporation_id |-> "corpB", alliance_id |-> "allyY"]]
MainCharacterOf == [u \in AllUsers |-> IF u = "u1" THEN "c1" ELSE None]
UserStateOf == [u \in AllUsers |-> IF u = "u1" THEN "Member" ELSE "Guest"]

\* character_ownership__user__profile__main_character of a character
MainOf(c) == IF ownership[c] \in Users THEN MainCharacterOf[ownership[c]] ELSE None
MainCorpOf(c) == IF MainOf(c) = None THEN None ELSE CharacterInfo[MainOf(c)].corporation_id
MainAllianceOf(c) == IF MainOf(c) = None THEN None ELSE CharacterInfo[MainOf(c)].alliance_id

\* EveCorporationInfo.alliance
CorpAlliance == [c \in Corps |-> IF c = "corpA" THEN "allyX" ELSE "allyY"]

\* esi.client.Corporation.GetCorporationsCorporationId(...).tax_rate * 100
EsiTaxRate == [c \in Corps |-> IF c = "corpA" THEN 10 ELSE 20]

\* The wallet journals (corptools): every row that can arrive
CharRows ==
    { [id |-> 1, entry_id |-> 101, date |-> 7, amount |-> 720, tax |-> 0,
       ref_type |-> "corporate_reward_payout", character |-> "c1",
       first_party |-> None, context_id |-> None, nulls |-> {}],
      [id |-> 2, entry_id |-> 102, date |-> 11, amount |-> 720, tax |-> 40,
       ref_type |-> "corporate_reward_payout", character |-> "c2",
       first_party |-> None, context_id |-> None, nulls |-> {}],
      [id |-> 3, entry_id |-> 103, date |-> 11, amount |-> 1200, tax |-> 0,
       ref_type |-> "bounty_prizes", character |-> "c1",
       first_party |-> None, context_id |-> "sysA", nulls |-> {}] }
CorpRows ==
    { [id |-> 1, entry_id |-> 201, date |-> 11, amount |-> 720,
       ref_type |-> "corporate_reward_payout", corporation |-> "corpB",
       first_party |-> None, second_party_name |-> "c2", nulls |-> {}] }
CharRowIds == {r.id : r \in CharRows}
CorpRowIds == {r.id : r \in CorpRows}
CharRow(id) == CHOOSE r \in CharRows : r.id = id
CorpRow(id) == CHOOSE r \in CorpRows : r.id = id

SystemRegion == [s \in {"sysA"} |-> "regionA"]
SystemsIn(regions) == {s \in DOMAIN SystemRegion : SystemRegion[s] \in regions}

\* Structures with their services (corptools)
Structures ==
    { [structure_id |-> 1, corporation |-> "corpB", type_name |-> "Azbel",
       region |-> "regionA", services |-> {"Manufacturing (Standard)"},
       last_update_structures |-> FirstNow] }

\* The rules a plan can include
RattingRule == [name |-> "ratting", tax |-> 5, include_ess_section |-> TRUE,
                region_filter |-> {}]
CharPayoutRule == [name |-> "char payout", corporation_id |-> None,
                   wallet_transaction_type |-> <<"corporate_reward_payout">>, tax |-> 5]
CorpPayoutRule == [name |-> "corp payout", corporation_id |-> None,
                   wallet_transaction_type |-> "corporate_reward_payout", tax |-> 5]
MemberRule == [state |-> "Member", isk_per_main |-> 20000000]
ServiceRule == [isk_per_service |-> 20000000,
                module_filters |-> {"Manufacturing (Standard)"},
                structure_type_filter |-> {}, region_filter |-> {}]

Plan(ratting, character, corporate, member, structure, exempted, alliances) ==
    [character_ratting_included |-> ratting,
     character_taxes_included |-> character,
     corporate_taxes_included |-> corporate,
     corporate_member_tax_included |-> member,
     corporate_structure_tax_included |-> structure,
     exempted_corps |-> exempted,
     included_alliances |-> alliances]

PlanConfigs ==
    { Plan(<<RattingRule>>, <<CharPayoutRule>>, <<CorpPayoutRule>>, <<>>, <<>>, {}, {}),
      Plan(<<>>, <<CharPayoutRule>>, <<>>, <<>>, <<>>, {}, {}),
      Plan(<<>>, <<>>, <<>>, <<MemberRule>>, <<ServiceRule>>, {}, {}),
      Plan(<<RattingRule>>, <<CharPayoutRule>>, <<CorpPayoutRule>>, <<MemberRule>>, <<>>,
           {"corpB"}, {"allyX"}),
      Plan(<<>>, <<>>, <<CorpPayoutRule>>, <<MemberRule>>, <<ServiceRule>>, {}, {"allyX"}) }

\* the rows of a queryset in the order the database returns them (by id)
RECURSIVE OrderById(_)
OrderById(ids) ==
    IF ids = {} THEN <<>>
    ELSE LET first == CHOOSE i \in ids : \A o \in ids : i <= o
         IN  <<first>> \o OrderById(ids \ {first})

\* what a relation named `taxed`, were one defined, holds: the program
\* never writes it
NoTaxed == [char |-> {}, corp |-> {}]
TaxedChoices == {NoTaxed, [char |-> {2}, corp |-> {}]}

\* the rate history of the corporations while taxes are run
TaxHistoryChoices ==
    { [c \in Corps |-> {}],
      [c \in Corps |-> IF c = "corpA" THEN {[start_date |-> 5, tax_rate |-> 20]}
                                      ELSE {}],
      [c \in Corps |-> {[start_date |-> 5, tax_rate |-> 100]}] }

\* .exclude(taxed__processed=True): the lookup goes through the relation named
\* `taxed`; CharacterPayoutTaxRecord.entry is reachable as
\* character_payout_tax_record and CorporatePayoutTaxRecord.entry as corp_taxed
ProcessedAsTaxed(kind, id) == id \in taxed[kind]

\* CharacterRattingTaxConfiguration.get_payment_data
RattingGetPaymentData(self, start_date, end_date, alliance_filter) ==
    {id \in charJournal :
        LET r == CharRow(id)
        IN  /\ r.date >= start_date /\ r.date <= end_date
            /\ r.ref_type \in {"bounty_prizes"}
            /\ alliance_filter # {} => MainAllianceOf(r.character) \in alliance_filter
            /\ self.region_filter # {} => r.context_id \in SystemsIn(self.region_filter)
            /\ ~ProcessedAsTaxed("char", id)}

\* CharacterPayoutTaxConfiguration.get_payment_data
CharPayoutGetPaymentData(self, start_date, end_date, alliance_filter) ==
    {id \in charJournal :
        LET r == CharRow(id)
        IN  /\ r.date >= start_date /\ r.date <= end_date
            /\ r.ref_type \in Range(self.wallet_transaction_type)
            /\ self.corporation_id # None => r.first_party = self.corporation_id
            /\ alliance_filter # {} => MainAllianceOf(r.character) \in alliance_filter
            /\ ~ProcessedAsTaxed("char", id)}

\* CorpTaxPayoutTaxConfiguration.get_payment_data
CorpPayoutGetPaymentData(self, start_date, end_date, alliance_filter) ==
    {id \in corpJournal :
        LET r == CorpRow(id)
        IN  /\ r.date >= start_date /\ r.date <= end_date
            /\ r.ref_type = self.wallet_transaction_type
            /\ r.first_party = self.corporation_id
            /\ ~ProcessedAsTaxed("corp", id)}

\* .values(...): a journal row joined with its character and the main
CharValuesOf(r) ==
        [entry_id |-> r.entry_id, date |-> r.date, amount |-> r.amount, tax |-> r.tax,
         char |-> r.character, corp |-> CharacterInfo[r.character].corporation_id,
         char_name |-> r.character, main |-> MainOf(r.character),
         main_corp |-> MainCorpOf(r.character),
         total_ratted |-> ((r.amount + r.tax) * 10) \div 6,
         ess_cut |-> ((((r.amount + r.tax) * 10) \div 6) * 35) \div 100,
         nulls |-> r.nulls]
CharValues(id) == CharValuesOf(CharRow(id))

\* whether a nullable column of a row holds NULL (None in Python)
IsNull(d, column) == column \in d.nulls

\* dicts keep insertion order: a dict is a sequence of records with a key
HasKey(dict, k) == \E i \in DOMAIN dict : dict[i].key = k
KeyIndex(dict, k) == CHOOSE i \in DOMAIN dict : dict[i].key = k
AppendNew(list, x) == IF x \in Range(list) THEN list ELSE Append(list, x)

EmptyAggregate(key, corp) ==
    [key |-> key, characters |-> <<>>, corp |-> corp, trans_ids |-> <<>>,
     tax_rates_used |-> <<>>, sum_earn |-> 0, pre_tax_total |-> 0, tax_to_pay |-> 0,
     cnt |-> 0, end |-> MIN_DATE, start |-> MAX_DATE, below |-> 0]

\* the accumulation common to the three transaction loops (taxes.py 186-203)
Accumulate(agg, amount, total_value, tax, entry_id, name, date, full) ==
    [agg EXCEPT !.sum_earn = @ + amount,
                !.pre_tax_total = @ + total_value,
                !.tax_to_pay = @ + (total_value * tax) \div 100,
                !.cnt = @ + 1,
                !.trans_ids = IF full THEN Append(@, entry_id) ELSE @,
                !.characters = AppendNew(@, name),
                !.start = IF date < @ THEN date ELSE @,
                !.end = IF date > @ THEN date ELSE @]

\* d["total_ratted"] * Decimal(0.95): Decimal of the float literal is the
\* binary double nearest 0.95, 0.9499999999999999555910790149937..., so the
\* product is x * 95 / 100 less x * delta for a delta > 0 of about 4.4e-17.
\* `value` is x * 95 / 100 and `below` counts the deltas the product falls
\* short of it (an aggregate's pre_tax_total is its field less below * delta)
RattingShare(total_ratted) ==
    [value |-> (total_ratted * 95) \div 100, below |-> total_ratted]

\* CharacterRattingTaxConfiguration.process_character_aggregates
RECURSIVE RattingProcess(_, _, _, _)
RattingProcess(self, data, i, st) ==
    IF i > Len(data) THEN st
    ELSE LET d == data[i] IN
         IF d.entry_id \in st.trans_ids THEN RattingProcess(self, data, i + 1, st)
         ELSE IF IsNull(d, "amount")
         THEN [st EXCEPT !.error = "TypeError"]  \* output[cid]["sum_earn"] += None
         ELSE LET cid  == IF d.main # None THEN d.main ELSE d.char
                  out  == IF HasKey(st.output, cid) THEN st.output
                          ELSE Append(st.output, EmptyAggregate(cid, d.main_corp))
                  k    == KeyIndex(out, cid)
                  share == RattingShare(d.total_ratted)
                  total_value ==
                      share.value - (IF self.include_ess_section THEN 0 ELSE d.ess_cut)
                  agg0 == Accumulate(out[k], d.amount, total_value, self.tax,
                                     d.entry_id, d.char_name, d.date, TRUE)
                  agg  == [agg0 EXCEPT !.below = @ + share.below]
              IN  RattingProcess(self, data, i + 1,
                      [st EXCEPT !.output = [out EXCEPT ![k] = agg],
                                 !.trans_ids = @ \cup {d.entry_id}])

NoAggregation == [output |-> <<>>, tax_cache |-> {}, trans_ids |-> {},
                  bad_transactions |-> <<>>, lookups |-> 0, error |-> None]

\* total_value = d["amount"] / (100 - Decimal(rate)) * 100, for rate # 100
CharPayoutTotalValueOfRate(amount, rate) == (amount * 100) \div rate
CharPayoutTotalValue(amount, rate) == (amount * 100) \div (100 - rate)

\* CharacterPayoutTaxConfiguration.process_character_aggregates
RECURSIVE CharPayoutProcess(_, _, _, _)
CharPayoutProcess(self, data, i, st) ==
    IF i > Len(data) THEN st
    ELSE LET d == data[i] IN
         IF d.entry_id \in st.trans_ids THEN CharPayoutProcess(self, data, i + 1, st)
         ELSE IF ~esiUp
         THEN [st EXCEPT !.error = "EsiError"]   \* .result() raises
         ELSE IF IsNull(d, "amount")
         THEN [st EXCEPT !.error = "TypeError",  \* None / Decimal
                         !.lookups = @ + 1]
         ELSE LET cid   == IF d.main # None THEN d.main ELSE d.char
                  crpid == d.corp
                  current_rate == EsiTaxRate[crpid]
                  rate  == GetTaxRate(cid, d.date, GetCorpTaxList(crpid), current_rate)
                  out   == IF HasKey(st.output, cid) THEN st.output
                           ELSE Append(st.output, EmptyAggregate(cid, d.main_corp))
                  k     == KeyIndex(out, cid)
                  st1   == [st EXCEPT !.output = out,
                                      !.tax_cache = @ \cup {crpid},
                                      !.lookups = @ + 1]
              IN  IF rate = 100 /\ d.tax = 0
                  THEN CharPayoutProcess(self, data, i + 1,
                          [st1 EXCEPT !.bad_transactions = Append(@, d.entry_id)])
                  ELSE LET total_value == IF rate = 100 THEN d.tax
                                          ELSE CharPayoutTotalValue(d.amount, rate)
                           agg0 == Accumulate(out[k], d.amount, total_value, self.tax,
                                              d.entry_id, d.char_name, d.date, TRUE)
                           agg  == [agg0 EXCEPT !.tax_rates_used = AppendNew(@, rate)]
                       IN  CharPayoutProcess(self, data, i + 1,
                               [st1 EXCEPT !.output = [out EXCEPT ![k] = agg],
                                           !.trans_ids = @ \cup {d.entry_id}])

\* for tr in t["tax_rates_used"]: append tr unless it is in the list already
MergeRatesAppended(used, rates) == used \o rates
MergeRates(used, rates) ==
    used \o SelectSeq(rates, LAMBDA tr : tr \notin Range(used))

\* process_character_aggregates_corp_level (the same code in both character rules)
RECURSIVE CorpLevel(_, _, _, _)
CorpLevel(data, i, output, full) ==
    IF i > Len(data) THEN output
    ELSE LET t   == data[i]
             cid == t.corp
             out == IF HasKey(output, cid) THEN output
                    ELSE Append(output, EmptyAggregate(cid, cid))
             k   == KeyIndex(out, cid)
             o   == out[k]
             merged ==
                 [o EXCEPT !.characters = @ \o t.characters,
                           !.trans_ids = IF full THEN @ \o t.trans_ids ELSE @,
                           !.tax_rates_used = MergeRates(@, t.tax_rates_used),
                           !.sum_earn = @ + t.sum_earn,
                           !.pre_tax_total = @ + t.pre_tax_total,
                           !.below = @ + t.below,
                           !.tax_to_pay = @ + t.tax_to_pay,
                           !.cnt = @ + t.cnt,
                           !.start = IF t.start < @ THEN t.start ELSE @,
                           !.end = IF t.end > @ THEN t.start ELSE @]
         IN  CorpLevel(data, i + 1, [out EXCEPT ![k] = merged], full)

\* get_character_aggregates_corp_level of the ratting rule
RattingCorpLevel(self, start_date, end_date, alliance_filter) ==
    LET ids  == RattingGetPaymentData(self, start_date, end_date, alliance_filter)
        data == [i \in 1..Cardinality(ids) |-> CharValues(OrderById(ids)[i])]
    IN  CorpLevel(RattingProcess(self, data, 1, NoAggregation).output, 1, <<>>, TRUE)

\* get_character_aggregates_corp_level of the character payout rule
CharPayoutCorpLevel(self, start_date, end_date, alliance_filter) ==
    LET ids  == CharPayoutGetPaymentData(self, start_date, end_date, alliance_filter)
        data == [i \in 1..Cardinality(ids) |-> CharValues(OrderById(ids)[i])]
    IN  CorpLevel(CharPayoutProcess(self, data, 1, NoAggregation).output, 1, <<>>, TRUE)

\* the pre-tax value get_aggregates computes for one corporation transaction:
\* total_value = w.amount, and w.amount / Decimal(rate / 100) when rate > 0
CorpPayoutTotalValue(amount, rate) ==
    IF rate > 0 THEN (amount * 100) \div rate ELSE amount

\* CorpTaxPayoutTaxConfiguration.get_aggregates
RECURSIVE CorpPayoutProcess(_, _, _, _, _)
CorpPayoutProcess(self, data, i, st, full) ==
    IF i > Len(data) THEN st
    ELSE LET w == data[i] IN
         IF w.entry_id \in st.trans_ids THEN CorpPayoutProcess(self, data, i + 1, st, full)
         ELSE IF ~esiUp
         THEN [st EXCEPT !.error = "EsiError"]   \* .result() raises
         ELSE IF IsNull(w, "amount")
         THEN [st EXCEPT !.error = "TypeError",  \* None / Decimal, or 0 + None
                         !.lookups = @ + 1]
         ELSE LET cid  == w.corporation
                  current_rate == EsiTaxRate[cid]
                  rate == GetTaxRate(cid, w.date, GetCorpTaxList(cid), current_rate)
                  out  == IF HasKey(st.output, cid) THEN st.output
                          ELSE Append(st.output, EmptyAggregate(cid, cid))
                  k    == KeyIndex(out, cid)
                  total_value == CorpPayoutTotalValue(w.amount, rate)
                  agg0 == Accumulate(out[k], w.amount, total_value, self.tax,
                                     w.entry_id, w.second_party_name, w.date, full)
                  agg  == [agg0 EXCEPT !.tax_rates_used = AppendNew(@, rate)]
              IN  CorpPayoutProcess(self, data, i + 1,
                      [st EXCEPT !.output = [out EXCEPT ![k] = agg],
                                 !.tax_cache = @ \cup {cid},
                                 !.lookups = @ + 1,
                                 !.trans_ids = @ \cup {w.entry_id}], full)

CorpPayoutAggregates(self, start_date, end_date, alliance_filter) ==
    LET ids  == CorpPayoutGetPaymentData(self, start_date, end_date, {})
        data == [i \in 1..Cardinality(ids) |-> CorpRow(OrderById(ids)[i])]
    IN  CorpPayoutProcess(self, data, 1, NoAggregation, TRUE).output


\* the order in which a GROUP BY over corporations lists them
CorpOrder == <<"corpA", "corpB">>

\* CorpTaxPerMemberTaxConfiguration.get_main_counts: the mains in a state
MainsIn(self, corp) ==
    {c \in Characters :
        /\ ownership[c] \in Users
        /\ UserStateOf[ownership[c]] = self.state
        /\ MainCharacterOf[ownership[c]] = c
        /\ CharacterInfo[c].corporation_id = corp}

\* CorpTaxPerMemberTaxConfiguration.get_invoice_data
MemberGetInvoiceData(self) ==
    LET listed == SelectSeq(CorpOrder, LAMBDA corp : MainsIn(self, corp) # {})
    IN  [i \in DOMAIN listed |->
            [key |-> listed[i],
             main_count |-> Cardinality(MainsIn(self, listed[i])),
             tax_to_pay |-> Cardinality(MainsIn(self, listed[i])) * self.isk_per_main]]

\* CorpTaxPerServiceModuleConfiguration.get_service_counts
ServiceStructures(self, corp) ==
    {st \in Structures :
        /\ st.corporation = corp
        /\ st.services \cap self.module_filters # {}
        /\ self.structure_type_filter # {} => st.type_name \in self.structure_type_filter
        /\ st.last_update_structures >= now - Days(7)
        /\ self.region_filter # {} => st.region \in self.region_filter}

\* CorpTaxPerServiceModuleConfiguration.get_invoice_data
ServiceGetInvoiceData(self) ==
    LET listed == SelectSeq(CorpOrder, LAMBDA corp : ServiceStructures(self, corp) # {})
    IN  [i \in DOMAIN listed |->
            [key |-> listed[i],
             services_count |-> Cardinality(ServiceStructures(self, listed[i])),
             tax_to_pay |-> Cardinality(ServiceStructures(self, listed[i]))
                            * self.isk_per_service]]

\* one rule's `_taxes.items()`, each with the text of its message
Items(taxes, label) ==
    [i \in DOMAIN taxes |->
        [key |-> taxes[i].key, tax_to_pay |-> taxes[i].tax_to_pay,
         trans_ids |-> IF "trans_ids" \in DOMAIN taxes[i] THEN taxes[i].trans_ids ELSE <<>>,
         label |-> label]]

RECURSIVE Concat(_, _)
Concat(lists, j) == IF j > Len(lists) THEN <<>> ELSE lists[j] \o Concat(lists, j + 1)

\* `if amount > 0` of calculate_tax
ChargeableLax(amount) == amount >= 0
Chargeable(amount) == amount > 0

\* the body of each of the five loops of calculate_tax; kind says which list
\* of transaction ids the rule's ids are added to
RECURSIVE AddInvoices(_, _, _, _, _)
AddInvoices(result, items, i, excluded_cids, kind) ==
    IF i > Len(items) THEN result
    ELSE LET data == items[i]
             cid  == data.key
         IN  IF cid \in excluded_cids
             THEN AddInvoices(result, items, i + 1, excluded_cids, kind)
             ELSE LET amount == data.tax_to_pay
                      inv0 == IF HasKey(result.taxes, cid) THEN result.taxes
                              ELSE Append(result.taxes,
                                          [key |-> cid, total_tax |-> 0, messages |-> <<>>])
                      k    == KeyIndex(inv0, cid)
                      inv  == IF Chargeable(amount)
                              THEN [inv0 EXCEPT
                                      ![k].total_tax = @ + amount,
                                      ![k].messages = Append(@, [rule |-> data.label,
                                                                 amount |-> amount])]
                              ELSE result.taxes
                  IN  AddInvoices(
                          [taxes |-> inv,
                           char_trans_ids |-> IF kind = "char"
                                              THEN result.char_trans_ids \o data.trans_ids
                                              ELSE result.char_trans_ids,
                           corp_trans_ids |-> IF kind = "corp"
                                              THEN result.corp_trans_ids \o data.trans_ids
                                              ELSE result.corp_trans_ids],
                          items, i + 1, excluded_cids, kind)

\* the outputs of the rules of each of the five relations of a plan
RattingItems(self, start_date, end_date, alliance_filter) ==
    Concat([j \in DOMAIN self.character_ratting_included |->
               LET tax == self.character_ratting_included[j]
               IN  Items(RattingCorpLevel(tax, start_date, end_date, alliance_filter),
                         tax.name)], 1)
PayoutItems(self, start_date, end_date, alliance_filter) ==
    Concat([j \in DOMAIN self.character_taxes_included |->
               LET tax == self.character_taxes_included[j]
               IN  Items(CharPayoutCorpLevel(tax, start_date, end_date, alliance_filter),
                         tax.name)], 1)
CorporateItems(self, start_date, end_date, alliance_filter) ==
    Concat([j \in DOMAIN self.corporate_taxes_included |->
               LET tax == self.corporate_taxes_included[j]
               IN  Items(CorpPayoutAggregates(tax, start_date, end_date, alliance_filter),
                         tax.name)], 1)
MemberItems(self) ==
    Concat([j \in DOMAIN self.corporate_member_tax_included |->
               Items(MemberGetInvoiceData(self.corporate_member_tax_included[j]),
                     "Main Character Tax")], 1)
ServiceItems(self) ==
    Concat([j \in DOMAIN self.corporate_structure_tax_included |->
               Items(ServiceGetInvoiceData(self.corporate_structure_tax_included[j]),
                     "Industry Structures Tax")], 1)

\* the outputs of the rules of a plan, in the order calculate_tax visits them
RuleItems(self, start_date, end_date, alliance_filter) ==
    [ratting |-> RattingItems(self, start_date, end_date, alliance_filter),
     payouts |-> PayoutItems(self, start_date, end_date, alliance_filter),
     corporate |-> CorporateItems(self, start_date, end_date, alliance_filter),
     members |-> MemberItems(self),
     services |-> ServiceItems(self)]

\* CorpTaxConfiguration.calculate_tax
CalculateTax(self, start_date, end_date, alliance_filter) ==
    LET excluded_cids == self.exempted_corps
        ratting   == RattingItems(self, start_date, end_date, alliance_filter)
        payouts   == PayoutItems(self, start_date, end_date, alliance_filter)
        corporate == CorporateItems(self, start_date, end_date, alliance_filter)
        r0 == [taxes |-> <<>>, char_trans_ids |-> <<>>, corp_trans_ids |-> <<>>]
        r1 == AddInvoices(r0, ratting, 1, excluded_cids, "char")
        r2 == AddInvoices(r1, payouts, 1, excluded_cids, "char")
        r3 == AddInvoices(r2, corporate, 1, excluded_cids, "corp")
        r4 == AddInvoices(r3, MemberItems(self), 1, excluded_cids, "none")
    IN  AddInvoices(r4, ServiceItems(self), 1, excluded_cids, "none")

\* the first exception an aggregation of the plan's rules raises, None when
\* there is none: calculate_tax handles no exception of get_invoice_data
RECURSIVE FirstError(_, _)
FirstError(errors, i) ==
    IF i > Len(errors) THEN None
    ELSE IF errors[i] # None THEN errors[i]
    ELSE FirstError(errors, i + 1)
CalculateTaxErrorSwallowed(self, start_date, end_date, alliance_filter) == None
CalculateTaxError(self, start_date, end_date, alliance_filter) ==
    LET chars(ids) == [i \in 1..Cardinality(ids) |-> CharValues(OrderById(ids)[i])]
        corps(ids) == [i \in 1..Cardinality(ids) |-> CorpRow(OrderById(ids)[i])]
        ratting == [j \in DOMAIN self.character_ratting_included |->
                      LET tax == self.character_ratting_included[j]
                      IN  RattingProcess(tax,
                              chars(RattingGetPaymentData(tax, start_date, end_date,
                                                          alliance_filter)),
                              1, NoAggregation).error]
        payouts == [j \in DOMAIN self.character_taxes_included |->
                      LET tax == self.character_taxes_included[j]
                      IN  CharPayoutProcess(tax,
                              chars(CharPayoutGetPaymentData(tax, start_date, end_date,
                                                             alliance_filter)),
                              1, NoAggregation).error]
        corporate == [j \in DOMAIN self.corporate_taxes_included |->
                      LET tax == self.corporate_taxes_included[j]
                      IN  CorpPayoutProcess(tax,
                              corps(CorpPayoutGetPaymentData(tax, start_date, end_date, {})),
                              1, NoAggregation, TRUE).error]
    IN  FirstError(ratting \o payouts \o corporate, 1)

\* CorpTaxConfiguration.sanitize_date: midnight of the same day
SanitizeDateKept(date) == date
SanitizeDate(date) == date - (date % UnitsPerDay)

\* CorpTaxConfiguration.get_last_processing_date
RECURSIVE LatestEndDate(_, _)
LatestEndDate(records, i) ==
    IF i > Len(records) THEN MIN_DATE
    ELSE LET rest == LatestEndDate(records, i + 1)
         IN  IF records[i].end_date > rest THEN records[i].end_date ELSE rest
GetLastProcessingDate ==
    IF taxRecords = <<>> THEN MIN_DATE + Days(EpochDays)
    ELSE LatestEndDate(taxRecords, 1)

\* get_charge_data: the window of a run started now
WindowStart == SanitizeDate(GetLastProcessingDate - Days(OVERLAP_DAYS))
WindowEnd == SanitizeDate(now)

\* post_ledger_entry(eve_corporation, amount, message, "tax") on given tables
PostLedgerEntryCorp(accts, ledger, corp, amount, description, entry_type) ==
    IF InvalidEntryType(entry_type) \/ InvalidAmount(amount)
    THEN [status |-> "ValueError", accounts |-> accts, ledger |-> ledger]
    ELSE LET got == GetOrCreateResult(accts, corp)
             res == CorpAddLedgerEntry(GetOrCreateTable(accts, corp), ledger,
                                       got.object.key, LedgerAmount(entry_type, amount),
                                       description, entry_type, None)
         IN  [status |-> "CorpLedgerEntry", accounts |-> res.accounts, ledger |-> res.ledger]

\* the charging loop of send_invoices with generate_charge_for_corp; the
\* loop ends at the first corporation id that raises
RECURSIVE ChargeCorps(_, _, _)
ChargeCorps(invoices, i, st) ==
    IF i > Len(invoices) THEN st
    ELSE LET tax == invoices[i] IN
         IF tax.key \notin Corps
         THEN [st EXCEPT !.status = "DoesNotExist"]
         ELSE LET charge == PostLedgerEntryCorp(st.accounts, st.ledger, tax.key,
                                                tax.total_tax, tax.messages, "tax")
              IN  IF charge.status = "ValueError"
                  THEN [st EXCEPT !.status = "ValueError"]
                  ELSE ChargeCorps(invoices, i + 1,
                          [status |-> st.status, accounts |-> charge.accounts,
                           ledger |-> charge.ledger,
                           total_tax |-> st.total_tax + tax.total_tax])

\* whether calculate_tax reaches a get_payment_data
UsesTaxedLookup(self) ==
    Len(self.character_ratting_included) + Len(self.character_taxes_included)
        + Len(self.corporate_taxes_included) > 0

\* the journal rows a run's rules select
SelectedCharRows(self, start_date, end_date, alliance_filter) ==
    UNION ({RattingGetPaymentData(self.character_ratting_included[j],
                                  start_date, end_date, alliance_filter) :
               j \in DOMAIN self.character_ratting_included}
           \cup {CharPayoutGetPaymentData(self.character_taxes_included[j],
                                          start_date, end_date, alliance_filter) :
               j \in DOMAIN self.character_taxes_included})
SelectedCorpRows(self, start_date, end_date, alliance_filter) ==
    UNION {CorpPayoutGetPaymentData(self.corporate_taxes_included[j],
                                    start_date, end_date, alliance_filter) :
               j \in DOMAIN self.corporate_taxes_included}

NoRun == [seq |-> 0, status |-> None, start_date |-> 0, end_date |-> 0, now |-> 0,
          char_selected |-> {}, corp_selected |-> {},
          char_journal |-> {}, corp_journal |-> {}, total_tax |-> 0]

RunOutcome(status, start_date, end_date, char_selected, corp_selected, total_tax) ==
    [seq |-> nruns + 1, status |-> status, start_date |-> start_date,
     end_date |-> end_date, now |-> now,
     char_selected |-> char_selected, corp_selected |-> corp_selected,
     char_journal |-> charJournal, corp_journal |-> corpJournal,
     total_tax |-> total_tax]

\* bulk_create of one marker per row: the one-to-one constraint rejects the
\* whole insert when a row already has its marker
BulkCreateSkipped(markers, ids, record) == [status |-> "ok", markers |-> markers]
BulkCreate(markers, ids, record) ==
    IF \E id \in ids : markers[id] # 0
    THEN [status |-> "IntegrityError", markers |-> markers]
    ELSE [status |-> "ok",
          markers |-> [id \in DOMAIN markers |-> IF id \in ids THEN record ELSE markers[id]]]

\* CorpTaxConfiguration.send_invoices
SendInvoices ==
    /\ nruns < MaxRuns
    /\ nruns' = nruns + 1
    /\ UNCHANGED <<now, charJournal, corpJournal, taxedDefined, taxed, plan>>
    /\ LET start_date == WindowStart
           end_date   == WindowEnd
           alliances  == plan.included_alliances
       IN  IF UsesTaxedLookup(plan) /\ ~taxedDefined
           THEN /\ lastRun' = RunOutcome("FieldError", start_date, end_date, {}, {}, 0)
                /\ UNCHANGED <<corpAccount, corpLedger, taxRecords, charMarkers, corpMarkers>>
           ELSE IF CalculateTaxError(plan, start_date, end_date, alliances) # None
           THEN /\ lastRun' = RunOutcome(
                       CalculateTaxError(plan, start_date, end_date, alliances),
                       start_date, end_date,
                       SelectedCharRows(plan, start_date, end_date, alliances),
                       SelectedCorpRows(plan, start_date, end_date, alliances), 0)
                /\ UNCHANGED <<corpAccount, corpLedger, taxRecords, charMarkers, corpMarkers>>
           ELSE LET taxes   == CalculateTax(plan, start_date, end_date, alliances)
                    charged == ChargeCorps(taxes.taxes, 1,
                                   [status |-> "ok", accounts |-> corpAccount,
                                    ledger |-> corpLedger, total_tax |-> 0])
                    sel_c   == SelectedCharRows(plan, start_date, end_date, alliances)
                    sel_w   == SelectedCorpRows(plan, start_date, end_date, alliances)
                    record  == Len(taxRecords) + 1
                    char_ids == {id \in charJournal :
                                    CharRow(id).entry_id \in Range(taxes.char_trans_ids)}
                    corp_ids == {id \in corpJournal :
                                    CorpRow(id).entry_id \in Range(taxes.corp_trans_ids)}
                    char_obs == BulkCreate(charMarkers, char_ids, record)
                    corp_obs == BulkCreate(corpMarkers, corp_ids, record)
                IN  /\ corpAccount' = charged.accounts
                    /\ corpLedger' = charged.ledger
                    /\ IF charged.status # "ok"
                       THEN /\ lastRun' = RunOutcome(charged.status, start_date, end_date,
                                                     sel_c, sel_w, charged.total_tax)
                            /\ UNCHANGED <<taxRecords, charMarkers, corpMarkers>>
                       ELSE /\ taxRecords' = Append(taxRecords,
                                   [start_date |-> start_date, end_date |-> end_date,
                                    total_tax |-> charged.total_tax])
                            /\ charMarkers' = char_obs.markers
                            /\ corpMarkers' = IF char_obs.status = "ok"
                                              THEN corp_obs.markers ELSE corpMarkers
                            /\ lastRun' = RunOutcome(
                                   IF char_obs.status # "ok" THEN char_obs.status
                                   ELSE corp_obs.status,
                                   start_date, end_date, sel_c, sel_w, charged.total_tax)
    /\ UNCHANGED <<ownership, userAccount, userLedger, unclaimed, ncalls, last>>

\* the clock
Tick ==
    /\ now < MaxNow
    /\ now' = now + 1
    /\ UNCHANGED <<charJournal, corpJournal, taxedDefined, taxed, plan, taxRecords,
                   charMarkers, corpMarkers, nruns, lastRun>>

\* corptools stores a journal row it fetched from ESI, dated in the past
ArriveChar(id) ==
    /\ id \notin charJournal
    /\ CharRow(id).date <= now
    /\ charJournal' = charJournal \cup {id}
    /\ UNCHANGED <<now, corpJournal, taxedDefined, taxed, plan, taxRecords,
                   charMarkers, corpMarkers, nruns, lastRun>>
ArriveCorp(id) ==
    /\ id \notin corpJournal
    /\ CorpRow(id).date <= now
    /\ corpJournal' = corpJournal \cup {id}
    /\ UNCHANGED <<now, charJournal, taxedDefined, taxed, plan, taxRecords,
                   charMarkers, corpMarkers, nruns, lastRun>>

\* ESI stops answering, or answers again
EsiChange ==
    /\ esiUp' = ~esiUp
    /\ UNCHANGED <<aggData, aggOut>>
----
\* one aggregation run on its own: the transaction loops of the ratting,
\* character payout and corporation payout rules on a list of rows

MaxRows == 2

\* journal rows an aggregation can be handed; ESI delivers an entry without
\* its amount now and then, and the column is then NULL
AggRows ==
    { [entry_id |-> 101, date |-> 7, amount |-> 720, tax |-> 0, character |-> "c1",
       nulls |-> {}],
      [entry_id |-> 102, date |-> 11, amount |-> 720, tax |-> 40, character |-> "c2",
       nulls |-> {}],
      [entry_id |-> 104, date |-> 9, amount |-> 0, tax |-> 0, character |-> "c1",
       nulls |-> {"amount"}],
      [entry_id |-> 105, date |-> 11, amount |-> 360, tax |-> 0, character |-> "c1",
       nulls |-> {}] }
AggInputs == UNION {[1..n -> AggRows] : n \in 0..MaxRows}

\* the row of a corporation wallet that pays the same character
CorpRowOf(r) ==
    [entry_id |-> r.entry_id, date |-> r.date, amount |-> r.amount,
     corporation |-> CharacterInfo[r.character].corporation_id,
     second_party_name |-> r.character, nulls |-> r.nulls]

NoAggOut == [rule |-> None, result |-> NoAggregation]

\* CharacterRattingTaxConfiguration.process_character_aggregates(data)
RunRatting ==
    /\ aggOut' = [rule |-> "ratting",
                  result |-> RattingProcess(RattingRule,
                                 [i \in DOMAIN aggData |-> CharValuesOf(aggData[i])],
                                 1, NoAggregation)]
    /\ UNCHANGED <<esiUp, aggData>>

\* CharacterPayoutTaxConfiguration.process_character_aggregates(data)
RunCharPayout ==
    /\ aggOut' = [rule |-> "char payout",
                  result |-> CharPayoutProcess(CharPayoutRule,
                                 [i \in DOMAIN aggData |-> CharValuesOf(aggData[i])],
                                 1, NoAggregation)]
    /\ UNCHANGED <<esiUp, aggData>>

\* CorpTaxPayoutTaxConfiguration.get_aggregates over the rows selected
RunCorpPayout ==
    /\ aggOut' = [rule |-> "corp payout",
                  result |-> CorpPayoutProcess(CorpPayoutRule,
                                 [i \in DOMAIN aggData |-> CorpRowOf(aggData[i])],
                                 1, NoAggregation, TRUE)]
    /\ UNCHANGED <<esiUp, aggData>>

----
\* tasks.py: check_for_payments

MaxPayRuns == 3

\* the journal rows of the bank corporation's wallet, by id; first_party is
\* the sender (a character for a donation, a corporation for a withdrawal)
PayRows ==
    { [id |-> 1, date |-> 3, ref_type |-> "player_donation", first_party |-> "c1",
       context_id |-> None, amount |-> 50],
      [id |-> 2, date |-> 5, ref_type |-> "player_donation", first_party |-> "c2",
       context_id |-> None, amount |-> 70],
      [id |-> 3, date |-> 7, ref_type |-> "corporation_account_withdrawal",
       first_party |-> "corpB", context_id |-> "c1", amount |-> 100],
      [id |-> 4, date |-> 9, ref_type |-> "corporation_account_withdrawal",
       first_party |-> "corpA", context_id |-> "c1", amount |-> 100],
      [id |-> 5, date |-> 10, ref_type |-> "player_donation", first_party |-> "c1",
       context_id |-> None, amount |-> 1] }
PayRowIds == {r.id : r \in PayRows}
PayRow(id) == CHOOSE r \in PayRows : r.id = id

\* AccountingConfiguration: the corporations deposits are ignored from, and
\* last_payment_datetime when the configuration is created
IgnoredCorpIds == {"corpA"}
PayEpoch == 2

PaymentRefs == {"corporation_account_withdrawal", "player_donation"}

\* the queryset `payments` of check_for_payments (before order_by)
NewPayments(last_time) ==
    {id \in bankJournal :
        LET r == PayRow(id)
        IN  /\ r.ref_type \in PaymentRefs
            /\ r.amount > 1
            /\ r.date > last_time
            /\ r.first_party \notin IgnoredCorpIds}

\* .order_by("date")
RECURSIVE OrderByDate(_)
OrderByDate(ids) ==
    IF ids = {} THEN <<>>
    ELSE LET first == CHOOSE id \in ids : \A o \in ids : PayRow(id).date <= PayRow(o).date
         IN  <<first>> \o OrderByDate(ids \ {first})

\* post_ledger_entry(target, amount, description, entry_type, date) on given
\* tables. The date is replaced by timezone.now() when it is None and the
\* type is not a deposit, and is handed to none of the calls that create
\* the entry.
PostLedgerEntryOn(st, target, amount, description, entry_type, date) ==
    IF InvalidEntryType(entry_type) \/ InvalidAmount(amount)
    THEN [st EXCEPT !.status = "ValueError"]
    ELSE LET ledger_amount == LedgerAmount(entry_type, amount)
             used_date == IF entry_type = "deposit" \/ date # None THEN date ELSE now
             user == IF target \in Characters THEN ownership[target] ELSE target
             character == IF target \in Characters THEN target ELSE None
         IN  IF target \in Corps
             THEN LET got == GetOrCreateResult(st.corpAccount, target)
                      res == CorpAddLedgerEntry(GetOrCreateTable(st.corpAccount, target),
                                 st.corpLedger, got.object.key, ledger_amount,
                                 description, entry_type, None)
                  IN  [st EXCEPT !.status = "CorpLedgerEntry",
                                 !.corpAccount = res.accounts,
                                 !.corpLedger = res.ledger]
             ELSE IF target \in Characters /\ NoUserFound(user)
             THEN [st EXCEPT !.status = "UnclaimedTax",
                             !.unclaimed = Append(@, NewUnclaimed(target, ledger_amount,
                                                                  description, entry_type))]
             ELSE IF user \in AllUsers
             THEN LET got == GetOrCreateResult(st.userAccount, user)
                      res == UserAddLedgerEntry(GetOrCreateTable(st.userAccount, user),
                                 st.userLedger, got.object.key, ledger_amount,
                                 description, entry_type, character)
                  IN  [st EXCEPT !.status = "UserLedgerEntry",
                                 !.userAccount = res.accounts,
                                 !.userLedger = res.ledger]
             ELSE [st EXCEPT !.status = "TypeError"]

\* the loop over the payments: a donation whose sender has no user ends the
\* task with `return`
RECURSIVE ProcessPayments(_, _, _)
ProcessPayments(payments, i, st) ==
    IF i > Len(payments) THEN st
    ELSE LET payment == PayRow(payments[i]) IN
         IF payment.ref_type = "corporation_account_withdrawal"
         THEN LET corp == payment.first_party     \* get_or_create_corporation_info
                  char == payment.context_id      \* get_or_create_character
                  desc == <<"Corporation Payment made by", char>>
                  res  == PostLedgerEntryOn(st, corp, payment.amount, desc, "deposit",
                                            payment.date)
              IN  ProcessPayments(payments, i + 1,
                      [res EXCEPT !.posted = Append(@, [id |-> payment.id,
                                                         table |-> "corp",
                                                         entry |-> Len(res.corpLedger)]),
                                  !.deposited[payment.id] = @ + 1])
         ELSE IF payment.first_party \notin Characters
         THEN [st EXCEPT !.status = "returned"]     \* EveCharacter.DoesNotExist
         ELSE LET eve_character == payment.first_party
                  user == ownership[eve_character]
              IN  IF user = None \/ user = SentinelUser
                  THEN [st EXCEPT !.status = "returned"]
                  ELSE LET desc == <<"Player Payment made by", eve_character>>
                           res  == PostLedgerEntryOn(st, user, payment.amount, desc,
                                                     "deposit", payment.date)
                       IN  ProcessPayments(payments, i + 1,
                               [res EXCEPT !.posted = Append(@, [id |-> payment.id,
                                                                  table |-> "user",
                                                                  entry |-> Len(res.userLedger)]),
                                           !.deposited[payment.id] = @ + 1])

NoPayRun == [seq |-> 0, status |-> None, selected |-> <<>>, posted |-> <<>>]

\* check_for_payments
CheckForPayments ==
    /\ payRuns < MaxPayRuns
    /\ payRuns' = payRuns + 1
    /\ LET last_time == lastPayment
           payments  == OrderByDate(NewPayments(last_time))
       IN  IF payments # <<>>
           THEN LET newest_payment == PayRow(payments[Len(payments)])
                    done == ProcessPayments(payments, 1,
                                [status |-> "done", userAccount |-> userAccount,
                                 userLedger |-> userLedger, corpAccount |-> corpAccount,
                                 corpLedger |-> corpLedger, unclaimed |-> unclaimed,
                                 posted |-> <<>>, deposited |-> deposited])
                IN  /\ lastPayment' = newest_payment.date
                    /\ userAccount' = done.userAccount
                    /\ userLedger' = done.userLedger
                    /\ corpAccount' = done.corpAccount
                    /\ corpLedger' = done.corpLedger
                    /\ unclaimed' = done.unclaimed
                    /\ deposited' = done.deposited
                    /\ payLast' = [seq |-> payRuns + 1,
                                   status |-> IF done.status = "returned" THEN "returned"
                                              ELSE "done",
                                   selected |-> payments, posted |-> done.posted]
           ELSE /\ payLast' = [seq |-> payRuns + 1, status |-> "none",
                               selected |-> <<>>, posted |-> <<>>]
                /\ UNCHANGED <<lastPayment, userAccount, userLedger, corpAccount,
                               corpLedger, unclaimed, deposited>>
    /\ UNCHANGED <<ownership, ncalls, last, bankJournal>>

\* corptools stores a row of the bank wallet it fetched from ESI; the journal
\* is fetched in the order of its dates
ArrivePayment(id) ==
    /\ id \notin bankJournal
    /\ PayRow(id).date <= now
    /\ \A o \in bankJournal : PayRow(o).date < PayRow(id).date
    /\ bankJournal' = bankJournal \cup {id}
    /\ UNCHANGED <<lastPayment, deposited, payRuns, payLast>>

----
\* tasks.py: send_invoices_for_config_id as a QueueOnce task on several
\* workers; get_charge_data, the charging loop and the record with its
\* markers are one step each

MaxEnqueues == 3

Workers == {"w1", "w2"}

NoFlightFrame == [start_date |-> 0, end_date |-> 0,
                  taxes |-> [taxes |-> <<>>, char_trans_ids |-> <<>>,
                             corp_trans_ids |-> <<>>],
                  char_selected |-> {}, corp_selected |-> {}, total_tax |-> 0]

\* base=QueueOnce: apply_async takes the lock of the task's name and
\* arguments, or finds it taken
OnceLockFreeAlways == TRUE
OnceLockFree == ~onceLock

\* send_invoices_for_config_id.si(config_id=config_id) ... apply_async: with
\* the lock taken the call queues nothing
ApplyAsync ==
    /\ flightCalls < MaxEnqueues
    /\ flightCalls' = flightCalls + 1
    /\ IF OnceLockFree
       THEN /\ onceLock' = TRUE
            /\ flightQueue' = flightQueue + 1
            /\ UNCHANGED flightRefused
       ELSE /\ flightRefused' = flightRefused + 1
            /\ UNCHANGED <<onceLock, flightQueue>>
    /\ UNCHANGED <<flightPc, flightFrame>>

\* the task returned or raised: QueueOnce gives the lock back
TaskEnds(w) ==
    /\ onceLock' = FALSE
    /\ flightPc' = [flightPc EXCEPT ![w] = "idle"]
    /\ flightFrame' = [flightFrame EXCEPT ![w] = NoFlightFrame]

\* a worker takes the message: tc.send_invoices() up to get_charge_data
FlightGetChargeData(w) ==
    /\ flightPc[w] = "idle"
    /\ flightQueue > 0
    /\ flightQueue' = flightQueue - 1
    /\ nruns' = nruns + 1
    /\ UNCHANGED <<flightCalls, flightRefused>>
    /\ UNCHANGED <<now, charJournal, corpJournal, taxedDefined, taxed, plan,
                   taxRecords, charMarkers, corpMarkers>>
    /\ UNCHANGED ledgerVars
    /\ LET start_date == WindowStart
           end_date   == WindowEnd
           alliances  == plan.included_alliances
       IN  IF UsesTaxedLookup(plan) /\ ~taxedDefined
           THEN /\ lastRun' = RunOutcome("FieldError", start_date, end_date, {}, {}, 0)
                /\ TaskEnds(w)
           ELSE IF CalculateTaxError(plan, start_date, end_date, alliances) # None
           THEN /\ lastRun' = RunOutcome(
                       CalculateTaxError(plan, start_date, end_date, alliances),
                       start_date, end_date, {}, {}, 0)
                /\ TaskEnds(w)
           ELSE /\ flightFrame' = [flightFrame EXCEPT ![w] =
                       [start_date |-> start_date, end_date |-> end_date,
                        taxes |-> CalculateTax(plan, start_date, end_date, alliances),
                        char_selected |-> SelectedCharRows(plan, start_date, end_date,
                                                           alliances),
                        corp_selected |-> SelectedCorpRows(plan, start_date, end_date,
                                                           alliances),
                        total_tax |-> 0]]
                /\ flightPc' = [flightPc EXCEPT ![w] = "charge"]
                /\ UNCHANGED <<onceLock, lastRun>>

\* the charging loop of send_invoices
FlightCharge(w) ==
    /\ flightPc[w] = "charge"
    /\ UNCHANGED <<flightQueue, flightCalls, flightRefused>>
    /\ UNCHANGED <<now, charJournal, corpJournal, taxedDefined, taxed, plan,
                   taxRecords, charMarkers, corpMarkers>>
    /\ UNCHANGED <<ownership, userAccount, userLedger, unclaimed, ncalls, last>>
    /\ LET f == flightFrame[w]
           charged == ChargeCorps(f.taxes.taxes, 1,
                          [status |-> "ok", accounts |-> corpAccount,
                           ledger |-> corpLedger, total_tax |-> 0])
       IN  /\ corpAccount' = charged.accounts
           /\ corpLedger' = charged.ledger
           /\ IF charged.status # "ok"
              THEN /\ lastRun' = [RunOutcome(charged.status, f.start_date, f.end_date,
                                             f.char_selected, f.corp_selected,
                                             charged.total_tax) EXCEPT !.seq = nruns]
                   /\ nruns' = nruns
                   /\ TaskEnds(w)
              ELSE /\ flightFrame' = [flightFrame EXCEPT ![w].total_tax = charged.total_tax]
                   /\ flightPc' = [flightPc EXCEPT ![w] = "mark"]
                   /\ UNCHANGED <<onceLock, lastRun, nruns>>

\* CorpTaxRecord.objects.create and the two bulk_create calls; the task returns
FlightMark(w) ==
    /\ flightPc[w] = "mark"
    /\ UNCHANGED <<flightQueue, flightCalls, flightRefused>>
    /\ UNCHANGED <<now, charJournal, corpJournal, taxedDefined, taxed, plan, nruns>>
    /\ UNCHANGED ledgerVars
    /\ LET f == flightFrame[w]
           record   == Len(taxRecords) + 1
           char_ids == {id \in charJournal :
                           CharRow(id).entry_id \in Range(f.taxes.char_trans_ids)}
           corp_ids == {id \in corpJournal :
                           CorpRow(id).entry_id \in Range(f.taxes.corp_trans_ids)}
           char_obs == BulkCreate(charMarkers, char_ids, record)
           corp_obs == BulkCreate(corpMarkers, corp_ids, record)
       IN  /\ taxRecords' = Append(taxRecords,
                  [start_date |-> f.start_date, end_date |-> f.end_date,
                   total_tax |-> f.total_tax])
           /\ charMarkers' = char_obs.markers
           /\ corpMarkers' = IF char_obs.status = "ok" THEN corp_obs.markers
                             ELSE corpMarkers
           /\ lastRun' = [RunOutcome(IF char_obs.status # "ok" THEN char_obs.status
                                     ELSE corp_obs.status,
                                     f.start_date, f.end_date, f.char_selected,
                                     f.corp_selected, f.total_tax) EXCEPT !.seq = nruns]
    /\ TaskEnds(w)

----
\* SpecLedger: one call at a time

InitConcIdle ==
    /\ pc = [p \in Procs |-> "idle"]
    /\ frame = [p \in Procs |-> NoFrame]

InitRateIdle ==
    /\ taxHistory = [c \in Corps |-> {}]
    /\ rateArgs = NoRateArgs
    /\ rateResult = -1

InitTaxIdle ==
    /\ now = FirstNow
    /\ charJournal = {}
    /\ corpJournal = {}
    /\ taxedDefined = FALSE
    /\ taxed = NoTaxed
    /\ plan = Plan(<<>>, <<>>, <<>>, <<>>, <<>>, {}, {})
    /\ taxRecords = <<>>
    /\ charMarkers = [id \in CharRowIds |-> 0]
    /\ corpMarkers = [id \in CorpRowIds |-> 0]
    /\ nruns = 0
    /\ lastRun = NoRun

InitAggIdle ==
    /\ esiUp = TRUE
    /\ aggData = <<>>
    /\ aggOut = NoAggOut

InitPayIdle ==
    /\ bankJournal = {}
    /\ lastPayment = PayEpoch
    /\ deposited = [id \in PayRowIds |-> 0]
    /\ payRuns = 0
    /\ payLast = NoPayRun

InitFlightIdle ==
    /\ onceLock = FALSE
    /\ flightQueue = 0
    /\ flightPc = [w \in Workers |-> "idle"]
    /\ flightFrame = [w \in Workers |-> NoFlightFrame]
    /\ flightCalls = 0
    /\ flightRefused = 0

InitExtIdle == InitAggIdle /\ InitPayIdle /\ InitFlightIdle

InitLedger ==
    /\ ownership \in {o \in [Characters -> OwnerResults] :
                         \A c \in Characters \ TargetCharacters : o[c] = None}
    /\ userAccount = [u \in AllUsers |-> NoAccount]
    /\ corpAccount = [c \in Corps |-> NoAccount]
    /\ userLedger = <<>>
    /\ corpLedger = <<>>
    /\ unclaimed = <<>>
    /\ ncalls = 0
    /\ last = [seq |-> 0, op |-> None, status |-> None, target |-> None,
               amount |-> 0, description |-> None, entry_type |-> None]
    /\ InitConcIdle
    /\ InitRateIdle
    /\ InitTaxIdle
    /\ InitExtIdle

DoPostLedgerEntry ==
    /\ \E target \in Targets, amount \in AmountInputs,
          description \in Descriptions, entry_type \in EntryTypeInputs :
            PostLedgerEntry(target, amount, description, entry_type)
    /\ UNCHANGED <<concVars, rateVars, taxVars, extVars>>

DoReconcileToUser ==
    /\ \E i \in DOMAIN unclaimed : ReconcileToUser(i)
    /\ UNCHANGED <<concVars, rateVars, taxVars, extVars>>

DoReconcileAll == ReconcileAll /\ UNCHANGED <<concVars, rateVars, taxVars, extVars>>

DoSetOwnership ==
    /\ \E c \in TargetCharacters, o \in OwnerResults : SetOwnership(c, o)
    /\ UNCHANGED <<concVars, rateVars, taxVars, extVars>>

NextLedger ==
    \/ DoPostLedgerEntry
    \/ DoReconcileToUser
    \/ DoReconcileAll
    \/ DoSetOwnership

vars == <<ownership, userAccount, corpAccount, userLedger, corpLedger, unclaimed,
          ncalls, last, pc, frame, taxHistory, rateArgs, rateResult, now,
          charJournal, corpJournal, taxedDefined, taxed, plan, taxRecords,
          charMarkers, corpMarkers, nruns, lastRun, esiUp, aggData, aggOut,
          bankJournal, lastPayment, deposited, payRuns, payLast,
          onceLock, flightQueue, flightPc, flightFrame, flightCalls, flightRefused>>

SpecLedger == InitLedger /\ [][NextLedger]_vars


InitConc == InitLedger

DoConcCall ==
    /\ \E p \in Procs, target \in ConcTargets, amount \in ConcAmounts,
          description \in Descriptions, entry_type \in ConcEntryTypes :
            ConcCall(p, target, amount, description, entry_type)
    /\ UNCHANGED <<rateVars, taxVars, extVars>>
DoUserCreateEntry == (\E p \in Procs : UserCreateEntry(p)) /\ UNCHANGED <<rateVars, taxVars, extVars>>
DoUserUpdateBalance == (\E p \in Procs : UserUpdateBalance(p)) /\ UNCHANGED <<rateVars, taxVars, extVars>>
DoUserRefresh == (\E p \in Procs : UserRefresh(p)) /\ UNCHANGED <<rateVars, taxVars, extVars>>
DoUserSaveEntry == (\E p \in Procs : UserSaveEntry(p)) /\ UNCHANGED <<rateVars, taxVars, extVars>>
DoCorpCreateEntry == (\E p \in Procs : CorpCreateEntry(p)) /\ UNCHANGED <<rateVars, taxVars, extVars>>
DoCorpUpdateBalance == (\E p \in Procs : CorpUpdateBalance(p)) /\ UNCHANGED <<rateVars, taxVars, extVars>>
DoCorpRefresh == (\E p \in Procs : CorpRefresh(p)) /\ UNCHANGED <<rateVars, taxVars, extVars>>
DoCorpSaveEntry == (\E p \in Procs : CorpSaveEntry(p)) /\ UNCHANGED <<rateVars, taxVars, extVars>>

NextConc ==
    \/ DoConcCall
    \/ DoUserCreateEntry
    \/ DoUserUpdateBalance
    \/ DoUserRefresh
    \/ DoUserSaveEntry
    \/ DoCorpCreateEntry
    \/ DoCorpUpdateBalance
    \/ DoCorpRefresh
    \/ DoCorpSaveEntry

SpecConc == InitConc /\ [][NextConc]_vars


----
\* SpecRate: get_tax_rate on any arguments and any stored history

InitRate ==
    /\ ownership = [c \in Characters |-> None]
    /\ userAccount = [u \in AllUsers |-> NoAccount]
    /\ corpAccount = [c \in Corps |-> NoAccount]
    /\ userLedger = <<>>
    /\ corpLedger = <<>>
    /\ unclaimed = <<>>
    /\ ncalls = 0
    /\ last = [seq |-> 0, op |-> None, status |-> None, target |-> None,
               amount |-> 0, description |-> None, entry_type |-> None]
    /\ InitConcIdle
    /\ InitTaxIdle
    /\ InitExtIdle
    /\ \E stored \in StoredHistories :
           taxHistory = [c \in Corps |-> IF c \in TargetCorps THEN stored ELSE {}]
    /\ \E corp_id \in RateCorpIds, date \in QueryDates,
          tax_rates \in Histories, default \in DefaultInputs :
           rateArgs = [corp_id |-> corp_id, date |-> date,
                       tax_rates |-> tax_rates, default |-> default]
    /\ rateResult = -1

DoCallGetTaxRate == CallGetTaxRate /\ UNCHANGED <<ledgerVars, concVars, taxVars, extVars>>

NextRate == DoCallGetTaxRate

SpecRate == InitRate /\ [][NextRate]_vars

----
\* SpecTax: send_invoices run after run while time passes and journal rows arrive

InitTax ==
    /\ ownership \in {o \in [Characters -> Users \cup {None}] :
                         \A c \in Characters :
                             o[c] \in Users => o[MainCharacterOf[o[c]]] = o[c]}
    /\ userAccount = [u \in AllUsers |-> NoAccount]
    /\ corpAccount = [c \in Corps |-> NoAccount]
    /\ userLedger = <<>>
    /\ corpLedger = <<>>
    /\ unclaimed = <<>>
    /\ ncalls = 0
    /\ last = [seq |-> 0, op |-> None, status |-> None, target |-> None,
               amount |-> 0, description |-> None, entry_type |-> None]
    /\ InitConcIdle
    /\ taxHistory \in TaxHistoryChoices
    /\ rateArgs = NoRateArgs
    /\ rateResult = -1
    /\ now = FirstNow
    /\ charJournal = {}
    /\ corpJournal = {}
    /\ taxedDefined \in BOOLEAN
    /\ taxed \in (IF taxedDefined THEN TaxedChoices ELSE {NoTaxed})
    /\ plan \in PlanConfigs
    /\ taxRecords = <<>>
    /\ charMarkers = [id \in CharRowIds |-> 0]
    /\ corpMarkers = [id \in CorpRowIds |-> 0]
    /\ nruns = 0
    /\ lastRun = NoRun
    /\ InitExtIdle

DoSendInvoices == SendInvoices /\ UNCHANGED <<concVars, rateVars, extVars>>
DoTick ==
    /\ Tick
    /\ UNCHANGED <<ledgerVars, concVars, rateVars, extVars>>
DoArriveChar ==
    /\ \E id \in CharRowIds : ArriveChar(id)
    /\ UNCHANGED <<ledgerVars, concVars, rateVars, extVars>>
DoArriveCorp ==
    /\ \E id \in CorpRowIds : ArriveCorp(id)
    /\ UNCHANGED <<ledgerVars, concVars, rateVars, extVars>>

NextTax ==
    \/ DoSendInvoices
    \/ DoTick
    \/ DoArriveChar
    \/ DoArriveCorp

SpecTax == InitTax /\ [][NextTax]_vars

----
\* SpecAgg: one aggregation of a rule over any short list of transactions

InitAgg ==
    /\ ownership \in {o \in [Characters -> Users \cup {None}] :
                         \A c \in Characters :
                             o[c] \in Users => o[MainCharacterOf[o[c]]] = o[c]}
    /\ userAccount = [u \in AllUsers |-> NoAccount]
    /\ corpAccount = [c \in Corps |-> NoAccount]
    /\ userLedger = <<>>
    /\ corpLedger = <<>>
    /\ unclaimed = <<>>
    /\ ncalls = 0
    /\ last = [seq |-> 0, op |-> None, status |-> None, target |-> None,
               amount |-> 0, description |-> None, entry_type |-> None]
    /\ InitConcIdle
    /\ taxHistory \in TaxHistoryChoices
    /\ rateArgs = NoRateArgs
    /\ rateResult = -1
    /\ InitTaxIdle
    /\ esiUp = TRUE
    /\ aggData \in AggInputs
    /\ aggOut = NoAggOut
    /\ InitPayIdle
    /\ InitFlightIdle

DoRunRatting == RunRatting /\ UNCHANGED <<ledgerVars, concVars, rateVars, taxVars, payVars, flightVars>>
DoRunCharPayout == RunCharPayout /\ UNCHANGED <<ledgerVars, concVars, rateVars, taxVars, payVars, flightVars>>
DoRunCorpPayout == RunCorpPayout /\ UNCHANGED <<ledgerVars, concVars, rateVars, taxVars, payVars, flightVars>>

NextAgg ==
    \/ DoRunRatting
    \/ DoRunCharPayout
    \/ DoRunCorpPayout

SpecAgg == InitAgg /\ [][NextAgg]_vars

----
\* SpecEsi: send_invoices run after run while ESI comes and goes

InitEsi ==
    /\ ownership \in {o \in [Characters -> Users \cup {None}] :
                         \A c \in Characters :
                             o[c] \in Users => o[MainCharacterOf[o[c]]] = o[c]}
    /\ userAccount = [u \in AllUsers |-> NoAccount]
    /\ corpAccount = [c \in Corps |-> NoAccount]
    /\ userLedger = <<>>
    /\ corpLedger = <<>>
    /\ unclaimed = <<>>
    /\ ncalls = 0
    /\ last = [seq |-> 0, op |-> None, status |-> None, target |-> None,
               amount |-> 0, description |-> None, entry_type |-> None]
    /\ InitConcIdle
    /\ taxHistory \in TaxHistoryChoices
    /\ rateArgs = NoRateArgs
    /\ rateResult = -1
    /\ now = FirstNow
    /\ charJournal = {}
    /\ corpJournal = {}
    /\ taxedDefined = TRUE
    /\ taxed = NoTaxed
    /\ plan \in PlanConfigs
    /\ taxRecords = <<>>
    /\ charMarkers = [id \in CharRowIds |-> 0]
    /\ corpMarkers = [id \in CorpRowIds |-> 0]
    /\ nruns = 0
    /\ lastRun = NoRun
    /\ esiUp \in BOOLEAN
    /\ aggData = <<>>
    /\ aggOut = NoAggOut
    /\ InitPayIdle
    /\ InitFlightIdle

DoEsiChange == EsiChange /\ UNCHANGED <<ledgerVars, concVars, rateVars, taxVars, payVars, flightVars>>

NextEsi ==
    \/ DoSendInvoices
    \/ DoTick
    \/ DoArriveChar
    \/ DoArriveCorp
    \/ DoEsiChange

SpecEsi == InitEsi /\ [][NextEsi]_vars

----
\* SpecPay: check_for_payments run after run while payments arrive

InitPay ==
    /\ ownership \in {o \in [Characters -> Users \cup {None}] :
                         \A c \in Characters :
                             o[c] \in Users => o[MainCharacterOf[o[c]]] = o[c]}
    /\ userAccount = [u \in AllUsers |-> NoAccount]
    /\ corpAccount = [c \in Corps |-> NoAccount]
    /\ userLedger = <<>>
    /\ corpLedger = <<>>
    /\ unclaimed = <<>>
    /\ ncalls = 0
    /\ last = [seq |-> 0, op |-> None, status |-> None, target |-> None,
               amount |-> 0, description |-> None, entry_type |-> None]
    /\ InitConcIdle
    /\ InitRateIdle
    /\ InitTaxIdle
    /\ InitAggIdle
    /\ InitPayIdle
    /\ InitFlightIdle

DoCheckForPayments == CheckForPayments /\ UNCHANGED <<concVars, rateVars, taxVars, aggVars, flightVars>>
DoArrivePayment ==
    /\ \E id \in PayRowIds : ArrivePayment(id)
    /\ UNCHANGED <<ledgerVars, concVars, rateVars, taxVars, aggVars, flightVars>>

NextPay ==
    \/ DoCheckForPayments
    \/ DoArrivePayment
    \/ DoTick

SpecPay == InitPay /\ [][NextPay]_vars

----
\* SpecFlight: send_invoices_for_config_id queued again and again while
\* workers run it and journal rows arrive

InitFlight ==
    /\ ownership \in {o \in [Characters -> Users \cup {None}] :
                         \A c \in Characters :
                             o[c] \in Users => o[MainCharacterOf[o[c]]] = o[c]}
    /\ userAccount = [u \in AllUsers |-> NoAccount]
    /\ corpAccount = [c \in Corps |-> NoAccount]
    /\ userLedger = <<>>
    /\ corpLedger = <<>>
    /\ unclaimed = <<>>
    /\ ncalls = 0
    /\ last = [seq |-> 0, op |-> None, status |-> None, target |-> None,
               amount |-> 0, description |-> None, entry_type |-> None]
    /\ InitConcIdle
    /\ InitRateIdle
    /\ now = FirstNow
    /\ charJournal = {}
    /\ corpJournal = {}
    /\ taxedDefined = TRUE
    /\ taxed = NoTaxed
    /\ plan \in PlanConfigs
    /\ taxRecords = <<>>
    /\ charMarkers = [id \in CharRowIds |-> 0]
    /\ corpMarkers = [id \in CorpRowIds |-> 0]
    /\ nruns = 0
    /\ lastRun = NoRun
    /\ InitAggIdle
    /\ InitPayIdle
    /\ InitFlightIdle

DoApplyAsync ==
    /\ ApplyAsync
    /\ UNCHANGED <<ledgerVars, concVars, rateVars, taxVars, aggVars, payVars>>
DoFlightGetChargeData ==
    /\ \E w \in Workers : FlightGetChargeData(w)
    /\ UNCHANGED <<concVars, rateVars, aggVars, payVars>>
DoFlightCharge ==
    /\ \E w \in Workers : FlightCharge(w)
    /\ UNCHANGED <<concVars, rateVars, aggVars, payVars>>
DoFlightMark ==
    /\ \E w \in Workers : FlightMark(w)
    /\ UNCHANGED <<concVars, rateVars, aggVars, payVars>>

NextFlight ==
    \/ DoApplyAsync
    \/ DoFlightGetChargeData
    \/ DoFlightCharge
    \/ DoFlightMark
    \/ DoArriveChar
    \/ DoArriveCorp

SpecFlight == InitFlight /\ [][NextFlight]_vars
----
\* Properties of the ledger (SpecLedger, SpecConc)

Signed(entry_type, amount) == IF entry_type = "deposit" THEN amount ELSE 0 - amount

FiveTypes == {"deposit", "tax", "fine", "adjustment", "charge"}

\* the step is a call of `op` (the call counter moves with every call)
Called(op) == last'.seq = last.seq + 1 /\ last'.op = op

LastOf(ledger) == ledger[Len(ledger)]

RECURSIVE SumUnclaimed(_)
SumUnclaimed(s) == IF s = <<>> THEN 0 ELSE s[1].amount + SumUnclaimed(Tail(s))

TotalHeld ==
    SumBalances(userAccount, AllUsers) + SumBalances(corpAccount, Corps)
    + SumUnclaimed(unclaimed)

AllIdle == \A p \in Procs : pc[p] = "idle"

RECURSIVE SumPending(_, _, _)
SumPending(ps, label, acct) ==
    IF ps = {} THEN 0
    ELSE LET p == CHOOSE x \in ps : TRUE
         IN  (IF pc[p] = label /\ frame[p].account = acct THEN frame[p].amount ELSE 0)
             + SumPending(ps \ {p}, label, acct)

\* C1: after any sequence of completed post_ledger_entry calls, every user and
\* corporation account's balance equals the sum of the signed amounts of its
\* ledger entries (and an account that was never created has no entries).
BalanceEqualsLedgerSum ==
    /\ \A u \in AllUsers :
        /\ userAccount[u].balance = SumAmounts(EntriesOf(userLedger, u))
        /\ ~userAccount[u].exists => EntriesOf(userLedger, u) = <<>>
    /\ \A c \in Corps :
        /\ corpAccount[c].balance = SumAmounts(EntriesOf(corpLedger, c))
        /\ ~corpAccount[c].exists => EntriesOf(corpLedger, c) = <<>>

\* C1 witness: an account holds a deposit and a charge posted one after the other
MixedEntriesPosted ==
    /\ \E u \in AllUsers :
        LET es == EntriesOf(userLedger, u)
        IN  Len(es) = 2 /\ es[1].amount < 0 /\ es[2].amount > 0
    /\ ncalls = 2

\* C4: at every point of every interleaving of concurrent postings, an account's
\* balance plus the amounts of the entries that are created but whose increment
\* is still to be applied equals the sum of its entries; so once all calls have
\* completed balance = sum, no increment lost and none applied twice.
ConcBalanceMatchesEntries ==
    /\ \A u \in AllUsers :
        userAccount[u].balance + SumPending(Procs, "user_update", u)
            = SumAmounts(EntriesOf(userLedger, u))
    /\ \A c \in Corps :
        corpAccount[c].balance + SumPending(Procs, "corp_update", c)
            = SumAmounts(EntriesOf(corpLedger, c))
    /\ AllIdle =>
        /\ \A u \in AllUsers :
            userAccount[u].balance = SumAmounts(EntriesOf(userLedger, u))
        /\ \A c \in Corps :
            corpAccount[c].balance = SumAmounts(EntriesOf(corpLedger, c))

\* C4 witness: two postings to one account overlapped (the first entry's
\* snapshot already shows the second increment) and both have completed
OverlappedPostingsDone ==
    /\ AllIdle
    /\ \E c \in Corps :
        LET es == EntriesOf(corpLedger, c)
        IN  Len(es) = 2 /\ es[1].balance = es[1].amount + es[2].amount

\* C5: a successful posting of a positive amount a stores +a for "deposit" and
\* -a for every other recognised type, and moves the balance of the entry's
\* account by the stored amount.
SignFollowsEntryType ==
    [][ /\ (Called("post_ledger_entry") /\ last'.status = "UserLedgerEntry") =>
            /\ Len(userLedger') = Len(userLedger) + 1
            /\ LET e == LastOf(userLedger')
               IN  /\ e.entry_type = last'.entry_type
                   /\ e.amount = Signed(last'.entry_type, last'.amount)
                   /\ userAccount'[e.account].balance
                        = userAccount[e.account].balance
                          + Signed(last'.entry_type, last'.amount)
        /\ (Called("post_ledger_entry") /\ last'.status = "CorpLedgerEntry") =>
            /\ Len(corpLedger') = Len(corpLedger) + 1
            /\ LET e == LastOf(corpLedger')
               IN  /\ e.entry_type = last'.entry_type
                   /\ e.amount = Signed(last'.entry_type, last'.amount)
                   /\ corpAccount'[e.account].balance
                        = corpAccount[e.account].balance
                          + Signed(last'.entry_type, last'.amount)
      ]_vars

\* C5 witness: deposit 100 on a fresh account, then tax 30: balance 70, stored -30
Deposit100Tax30 ==
    \E u \in Users :
        /\ userAccount[u].balance = 70
        /\ Len(userLedger) = 2
        /\ userLedger[1].entry_type = "deposit" /\ userLedger[1].amount = 100
        /\ userLedger[2].entry_type = "tax" /\ userLedger[2].amount = -30
        /\ userLedger[1].account = u /\ userLedger[2].account = u
        /\ last.entry_type = "tax" /\ last.amount = 30

\* C6: a call with an unrecognised entry_type or with amount <= 0 fails with
\* ValueError and leaves every account, ledger entry and Unclaimed Tax as it was.
InvalidCallChangesNothing ==
    [][ (/\ Called("post_ledger_entry")
         /\ (last'.entry_type \notin FiveTypes \/ last'.amount <= 0)) =>
            /\ last'.status = "ValueError"
            /\ UNCHANGED <<userAccount, corpAccount, userLedger, corpLedger, unclaimed>>
      ]_vars

\* C6 witness: a call was rejected while the ledger already held an entry
RejectedAfterPosting ==
    /\ last.status = "ValueError"
    /\ last.amount <= 0
    /\ last.entry_type \in FiveTypes
    /\ Len(userLedger) + Len(corpLedger) + Len(unclaimed) > 0

\* C7: a valid posting on a character whose user is not found, or is the
\* sentinel user "deleted", adds exactly one Unclaimed Tax with the signed
\* amount, type, description and character, no ledger entry, no balance change;
\* with a real user it adds one entry to that user's account with the character.
CharacterPostingRouted ==
    [][ (/\ Called("post_ledger_entry")
         /\ last'.target \in Characters
         /\ last'.entry_type \in FiveTypes /\ last'.amount > 0) =>
            IF ownership[last'.target] \in Users
            THEN /\ unclaimed' = unclaimed
                 /\ Len(userLedger') = Len(userLedger) + 1
                 /\ LastOf(userLedger').account = ownership[last'.target]
                 /\ LastOf(userLedger').character = last'.target
                 /\ LastOf(userLedger').amount = Signed(last'.entry_type, last'.amount)
            ELSE /\ unclaimed' = Append(unclaimed,
                        [character |-> last'.target,
                         amount |-> Signed(last'.entry_type, last'.amount),
                         description |-> last'.description,
                         type |-> last'.entry_type])
                 /\ UNCHANGED <<userAccount, corpAccount, userLedger, corpLedger>>
      ]_vars

\* C7 witness: a posting on a character of the sentinel user became an Unclaimed
\* Tax, after a posting on a character with a real user became a ledger entry
SentinelCharacterUnclaimed ==
    /\ last.status = "UnclaimedTax"
    /\ ownership[last.target] = SentinelUser
    /\ Len(unclaimed) = 1
    /\ Len(userLedger) = 1 /\ userLedger[1].character \in Characters

\* C8: every successful posting adds its signed amount to (all balances + all
\* outstanding Unclaimed Tax), and no other step (failed posting,
\* reconciliation) changes that total: no charge is lost.
NoChargeLost ==
    [][ TotalHeld' - TotalHeld =
            IF Called("post_ledger_entry")
               /\ last'.status \in {"UserLedgerEntry", "CorpLedgerEntry", "UnclaimedTax"}
            THEN Signed(last'.entry_type, last'.amount)
            ELSE 0
      ]_vars

\* C8 witness: a charge is outstanding as Unclaimed Tax and a reconciliation of
\* it has been attempted for a character that has a user by then
UnclaimedOutstandingAfterReconcile ==
    /\ last.op = "_reconcile_to_user"
    /\ Len(unclaimed) = 1
    /\ unclaimed[1].amount < 0
    /\ ownership[unclaimed[1].character] \in Users

\* C9: reconciling an Unclaimed Tax whose character resolves to a user deletes
\* the record and adds exactly one ledger entry to that user's account with
\* the same amount, type and character, the balance moving by that amount.
ReconcileConvertsRecord ==
    [][ (Called("_reconcile_to_user") /\ ownership[last'.target] \in Users) =>
            /\ Len(unclaimed') = Len(unclaimed) - 1
            /\ Len(userLedger') = Len(userLedger) + 1
            /\ LastOf(userLedger').account = ownership[last'.target]
            /\ LastOf(userLedger').amount = last'.amount
            /\ LastOf(userLedger').entry_type = last'.entry_type
            /\ LastOf(userLedger').character = last'.target
            /\ userAccount'[ownership[last'.target]].balance
                 = userAccount[ownership[last'.target]].balance + last'.amount
      ]_vars


----
\* SpecRate, SpecTax

\* the rate in force at `date` by a set of history rows: that of the row with
\* the greatest start_date strictly before date, else the default
RateInForce(rows, date, default) ==
    LET before == {r \in rows : r.start_date < date}
    IN  IF before = {} THEN default
        ELSE (CHOOSE r \in before : \A o \in before : o.start_date <= r.start_date).tax_rate

StoredRows(corp_id) == IF corp_id \in DOMAIN taxHistory THEN taxHistory[corp_id] ELSE {}

\* C10 as stated: get_tax_rate returns, for any history list in any order, the
\* tax_rate of the record with the greatest start_date strictly before the
\* date, and the supplied default when the list has no such record.
RateFromSuppliedList ==
    rateResult # -1 =>
        rateResult = RateInForce(RowsOf(rateArgs.tax_rates), rateArgs.date,
                                 rateArgs.default)

\* C10 amended: for a non-empty list in any order get_tax_rate returns the
\* tax_rate of its record with the greatest start_date strictly before the
\* date, else the default; for an empty list it resolves in the same way
\* against the stored history of corp_id instead.
RateFromListOrStoredHistory ==
    rateResult # -1 =>
        rateResult = RateInForce(IF rateArgs.tax_rates # <<>>
                                 THEN RowsOf(rateArgs.tax_rates)
                                 ELSE StoredRows(rateArgs.corp_id),
                                 rateArgs.date, rateArgs.default)

UnsortedHistoryResolved ==
    /\ rateArgs.tax_rates = << [start_date |-> 20240601, tax_rate |-> 8],
                               [start_date |-> 20240101, tax_rate |-> 5] >>
    /\ rateArgs.date = 20240301
    /\ rateArgs.default = 10
    /\ rateResult = 5

SendInvoicesCalled == nruns' = nruns + 1

\* C2: a journal row that has a processed marker (CharacterPayoutTaxRecord /
\* CorporatePayoutTaxRecord) from an earlier run is not selected by
\* get_payment_data of any rule in a later run of send_invoices.
MarkedRowsNotSelected ==
    [][SendInvoicesCalled =>
          /\ \A id \in lastRun'.char_selected : charMarkers[id] = 0
          /\ \A id \in lastRun'.corp_selected : corpMarkers[id] = 0]_vars

\* C3: send_invoices run again on the same plan, after a run that completed
\* and with no journal row arrived since, posts no ledger entry, changes no
\* account balance and records a total of zero.
RerunChargesNothing ==
    [][(/\ SendInvoicesCalled
        /\ lastRun.status = "ok"
        /\ lastRun.now = now
        /\ lastRun.char_journal = charJournal
        /\ lastRun.corp_journal = corpJournal)
       => /\ corpLedger' = corpLedger
          /\ corpAccount' = corpAccount
          /\ lastRun'.total_tax = 0]_vars

----
\* SpecTax: the composer (calculate_tax)

\* calculate_tax can be called: no get_payment_data raises
ComposerRuns == UsesTaxedLookup(plan) => taxedDefined

\* what get_charge_data would compose in the current state
Composed == CalculateTax(plan, WindowStart, WindowEnd, plan.included_alliances)
ComposedItems ==
    LET rules == RuleItems(plan, WindowStart, WindowEnd, plan.included_alliances)
    IN  rules.ratting \o rules.payouts \o rules.corporate \o rules.members
        \o rules.services

RECURSIVE SumPositive(_, _, _)
SumPositive(items, i, cid) ==
    IF i > Len(items) THEN 0
    ELSE (IF items[i].key = cid /\ items[i].tax_to_pay > 0 THEN items[i].tax_to_pay ELSE 0)
         + SumPositive(items, i + 1, cid)

RECURSIVE SumMessages(_, _)
SumMessages(messages, i) ==
    IF i > Len(messages) THEN 0 ELSE messages[i].amount + SumMessages(messages, i + 1)

\* C11: calculate_tax never includes a corporation of exempted_corps, never
\* adds a message or an amount for a rule output with tax_to_pay <= 0, and so
\* every corporation in the result has total_tax > 0, at least one message and
\* total_tax equal to the sum of the positive amounts the rules computed for it.
ComposerSkipsExemptAndNonPositive ==
    ComposerRuns =>
        LET taxes == Composed.taxes
            items == ComposedItems
        IN  \A i \in DOMAIN taxes :
                LET inv == taxes[i]
                IN  /\ inv.key \notin plan.exempted_corps
                    /\ inv.total_tax > 0
                    /\ Len(inv.messages) >= 1
                    /\ \A m \in DOMAIN inv.messages : inv.messages[m].amount > 0
                    /\ inv.total_tax = SumMessages(inv.messages, 1)
                    /\ inv.total_tax = SumPositive(items, 1, inv.key)

ExemptAndZeroOutputsComposed ==
    /\ ComposerRuns
    /\ Composed.taxes # <<>>
    /\ \E i \in DOMAIN ComposedItems :
           /\ ComposedItems[i].key \in plan.exempted_corps
           /\ ComposedItems[i].tax_to_pay > 0
    /\ \E i \in DOMAIN ComposedItems :
           /\ ComposedItems[i].key \notin plan.exempted_corps
           /\ ComposedItems[i].tax_to_pay <= 0

\* C12: with a non-empty included_alliances, every corporation calculate_tax
\* attributes an amount to belongs to one of the listed alliances, whatever
\* the kind of the rule the amount comes from.
AllianceFilterHonoured ==
    (ComposerRuns /\ plan.included_alliances # {}) =>
        LET taxes == Composed.taxes
        IN  \A i \in DOMAIN taxes :
                /\ taxes[i].key \in DOMAIN CorpAlliance
                /\ CorpAlliance[taxes[i].key] \in plan.included_alliances

----
\* SpecTax: send_invoices

\* the corporations the composer charges in the current state
ChargedCorps == {Composed.taxes[i].key : i \in DOMAIN Composed.taxes}

\* the entry ids of the transactions behind the amounts charged: those in the
\* trans_ids of a rule output of a charged corporation
TaxedEntryIds(items, charged) ==
    UNION {Range(items[i].trans_ids) : i \in {j \in DOMAIN items : items[j].key \in charged}}

\* C13: when send_invoices returns, every wallet transaction whose amount
\* contributed to a charge posted in the run has a processed marker that
\* references the CorpTaxRecord the run created.
TaxedTransactionsMarked ==
    [][(SendInvoicesCalled /\ lastRun'.status = "ok") =>
          LET rules   == RuleItems(plan, WindowStart, WindowEnd, plan.included_alliances)
              charged == ChargedCorps
              chars   == TaxedEntryIds(rules.ratting \o rules.payouts, charged)
              corps   == TaxedEntryIds(rules.corporate, charged)
          IN  /\ Len(taxRecords') = Len(taxRecords) + 1
              /\ \A id \in charJournal :
                    CharRow(id).entry_id \in chars => charMarkers'[id] = Len(taxRecords')
              /\ \A id \in corpJournal :
                    CorpRow(id).entry_id \in corps => corpMarkers'[id] = Len(taxRecords')]_vars

RunMarkedItsTransactions ==
    /\ lastRun.status = "ok"
    /\ lastRun.total_tax > 0
    /\ Len(corpLedger) >= 2
    /\ \E id \in charJournal : charMarkers[id] = Len(taxRecords)
    /\ \E id \in corpJournal : corpMarkers[id] = Len(taxRecords)

RECURSIVE SumTotalTax(_, _)
SumTotalTax(taxes, i) ==
    IF i > Len(taxes) THEN 0 ELSE taxes[i].total_tax + SumTotalTax(taxes, i + 1)

\* C14: send_invoices posts exactly one 'tax' ledger entry per corporation of
\* the composer's result, for its total_tax and against its account, and the
\* CorpTaxRecord it stores carries the sum of the amounts charged and the
\* run's window.
OneTaxEntryPerComposedCorp ==
    [][(SendInvoicesCalled /\ ComposerRuns) =>
          LET taxes == Composed.taxes
              n     == Len(corpLedger)
          IN  /\ Len(corpLedger') = n + Len(taxes)
              /\ \A i \in DOMAIN taxes :
                    /\ corpLedger'[n + i].account = taxes[i].key
                    /\ corpLedger'[n + i].entry_type = "tax"
                    /\ corpLedger'[n + i].amount = 0 - taxes[i].total_tax
              /\ Len(taxRecords') = Len(taxRecords) + 1
              /\ taxRecords'[Len(taxRecords')] =
                     [start_date |-> WindowStart, end_date |-> WindowEnd,
                      total_tax |-> SumTotalTax(taxes, 1)]]_vars

\* midnight of the day an instant falls in
Midnight(t) == (t \div UnitsPerDay) * UnitsPerDay

\* C15: a run's window starts OVERLAP_DAYS before the greatest end_date of the
\* existing CorpTaxRecords (before a fixed epoch when there is none) and ends
\* now, both at midnight; so the next window starts 2 days before the previous
\* record's end, start <= end, and every instant from the previous end to the
\* new end lies in the new window.
WindowFollowsLastRecord ==
    [][SendInvoicesCalled =>
          LET ends == {taxRecords[k].end_date : k \in DOMAIN taxRecords}
              latest == IF ends = {} THEN MIN_DATE + Days(EpochDays)
                      ELSE CHOOSE e \in ends : \A f \in ends : f <= e
              s    == lastRun'.start_date
              e    == lastRun'.end_date
          IN  /\ s = Midnight(latest - Days(OVERLAP_DAYS))
              /\ e = Midnight(now)
              /\ s <= e
              /\ taxRecords # <<>> =>
                    LET prev == taxRecords[Len(taxRecords)].end_date
                    IN  /\ s = prev - Days(2)
                        /\ prev <= e
                        /\ \A t \in prev..e : s <= t /\ t <= e
              /\ Len(taxRecords') > Len(taxRecords) =>
                    /\ taxRecords'[Len(taxRecords')].start_date = s
                    /\ taxRecords'[Len(taxRecords')].end_date = e]_vars

SecondWindowOverlapsFirst ==
    /\ Len(taxRecords) = 2
    /\ taxRecords[1].start_date = Days(EpochDays - OVERLAP_DAYS)
    /\ taxRecords[1].end_date < taxRecords[2].end_date
    /\ taxRecords[2].start_date = taxRecords[1].end_date - Days(OVERLAP_DAYS)
    /\ lastRun.seq = 2
    /\ lastRun.now % UnitsPerDay = 0

----
\* SpecTax: the rules' arithmetic

\* C16: in the corp payout rule a transaction of amount a at resolved rate
\* r < 100 contributes pre_tax_total = a / (100 - r) * 100 and
\* tax_to_pay = pre_tax_total * rule tax / 100; amount 90 at rate 10 with rule
\* tax 5 gives 100 and 5.
CorpPayoutGrossedUp ==
    /\ CorpPayoutTotalValue(90, 10) = 100
    /\ (CorpPayoutTotalValue(90, 10) * 5) \div 100 = 5
    /\ ComposerRuns =>
          \A j \in DOMAIN plan.corporate_taxes_included :
              LET rule == plan.corporate_taxes_included[j]
                  out  == CorpPayoutAggregates(rule, WindowStart, WindowEnd,
                                               plan.included_alliances)
              IN  \A k \in DOMAIN out :
                      (out[k].cnt = 1 /\ out[k].tax_rates_used[1] < 100) =>
                          /\ out[k].pre_tax_total * (100 - out[k].tax_rates_used[1])
                                 = out[k].sum_earn * 100
                          /\ out[k].tax_to_pay * 100 = out[k].pre_tax_total * rule.tax

RECURSIVE SumOf(_, _)
SumOf(f, S) ==
    IF S = {} THEN 0
    ELSE LET x == CHOOSE y \in S : TRUE IN f[x] + SumOf(f, S \ {x})

\* the aggregate key of a character's transactions: the main, else the character
AggregateKey(c) == IF MainOf(c) # None THEN MainOf(c) ELSE c

\* the rate in force for a character journal row
RowRate(id) ==
    LET r    == CharRow(id)
        corp == CharacterInfo[r.character].corporation_id
    IN  RateInForce(StoredRows(corp), r.date, EsiTaxRate[corp])

\* the per-character state of the character payout rule over the window
CharPayoutState(rule) ==
    LET ids  == CharPayoutGetPaymentData(rule, WindowStart, WindowEnd,
                                         plan.included_alliances)
        data == [i \in 1..Cardinality(ids) |-> CharValues(OrderById(ids)[i])]
    IN  CharPayoutProcess(rule, data, 1, NoAggregation)

\* C17: in the character payout rule a transaction of amount a at resolved
\* rate r contributes pre_tax_total = a / (100 - r) * 100 and
\* tax = pre_tax_total * rule tax / 100; at r = 100 the division error is
\* caught and pre_tax_total is the transaction's tax field when it has one,
\* otherwise the transaction is skipped as bad; the aggregation always ends.
CharPayoutGrossedUpOrFallsBack ==
    ComposerRuns =>
        \A j \in DOMAIN plan.character_taxes_included :
            LET rule == plan.character_taxes_included[j]
                ids  == CharPayoutGetPaymentData(rule, WindowStart, WindowEnd,
                                                 plan.included_alliances)
                st   == CharPayoutState(rule)
                bad  == {id \in ids : RowRate(id) = 100 /\ CharRow(id).tax = 0}
                pre  == [id \in ids |->
                            IF RowRate(id) = 100 THEN CharRow(id).tax
                            ELSE (CharRow(id).amount * 100) \div (100 - RowRate(id))]
            IN  /\ Range(st.bad_transactions) = {CharRow(id).entry_id : id \in bad}
                /\ \A id \in ids :
                       RowRate(id) # 100 =>
                           pre[id] * (100 - RowRate(id)) = CharRow(id).amount * 100
                /\ \A id \in ids \ bad :
                       \E k \in DOMAIN st.output : st.output[k].key = AggregateKey(CharRow(id).character)
                /\ \A k \in DOMAIN st.output :
                       LET mine == {id \in ids \ bad :
                                       AggregateKey(CharRow(id).character) = st.output[k].key}
                       IN  /\ st.output[k].cnt = Cardinality(mine)
                           /\ st.output[k].pre_tax_total = SumOf(pre, mine)
                           /\ st.output[k].tax_to_pay * 100
                                  = st.output[k].pre_tax_total * rule.tax
                           /\ Range(st.output[k].trans_ids)
                                  = {CharRow(id).entry_id : id \in mine}

FullRateFallsBackOrSkips ==
    /\ ComposerRuns
    /\ \E j \in DOMAIN plan.character_taxes_included :
          LET st == CharPayoutState(plan.character_taxes_included[j])
          IN  /\ st.bad_transactions = <<101>>
              /\ \E k \in DOMAIN st.output :
                     /\ st.output[k].trans_ids = <<102>>
                     /\ st.output[k].pre_tax_total = 40
                     /\ st.output[k].tax_to_pay = 2

\* the per-character state of the ratting rule over the window
RattingState(rule) ==
    LET ids  == RattingGetPaymentData(rule, WindowStart, WindowEnd,
                                      plan.included_alliances)
        data == [i \in 1..Cardinality(ids) |-> CharValues(OrderById(ids)[i])]
    IN  RattingProcess(rule, data, 1, NoAggregation)

\* C18: in the ratting rule a bounty transaction of net amount n contributes
\* pre_tax_total = n * 0.95 / 0.6 and tax_to_pay = pre_tax_total * rule tax / 100
\* (600 at 5% gives 950 and 47.5); without the ESS section the 35% ESS cut of
\* n / 0.6 is subtracted from pre_tax_total first.
RattingTaxesNinetyFivePercent ==
    /\ RattingShare(1000) = [value |-> 950, below |-> 0]
    /\ ComposerRuns =>
          \A j \in DOMAIN plan.character_ratting_included :
              LET rule == plan.character_ratting_included[j]
                  ids  == RattingGetPaymentData(rule, WindowStart, WindowEnd,
                                                plan.included_alliances)
                  st   == RattingState(rule)
                  n    == [id \in ids |-> CharRow(id).amount + CharRow(id).tax]
              IN  \A k \in DOMAIN st.output :
                      LET mine == {id \in ids :
                                      AggregateKey(CharRow(id).character) = st.output[k].key}
                      IN  /\ st.output[k].below = 0
                          /\ st.output[k].pre_tax_total * 600 =
                                 SumOf(n, mine)
                                   * (IF rule.include_ess_section THEN 950 ELSE 600)
                          /\ st.output[k].tax_to_pay * 100
                                 = st.output[k].pre_tax_total * rule.tax

----
\* SpecTax: the roll-up to corporations

\* the per-character aggregates of every character rule of the plan over the
\* window, one sequence per rule
PerCharacterOutputs ==
    [j \in DOMAIN plan.character_ratting_included |->
        RattingState(plan.character_ratting_included[j]).output]
    \o [j \in DOMAIN plan.character_taxes_included |->
        CharPayoutState(plan.character_taxes_included[j]).output]

MinOf(S) == CHOOSE x \in S : \A y \in S : x <= y
MaxOf(S) == CHOOSE x \in S : \A y \in S : y <= x

\* C19: in the roll-up each corporation's start is the minimum of the starts
\* and its end the maximum of the ends of the per-character aggregates merged
\* into it.
RollUpSpansItsAggregates ==
    ComposerRuns =>
        \A r \in DOMAIN PerCharacterOutputs :
            LET data == PerCharacterOutputs[r]
                out  == CorpLevel(data, 1, <<>>, TRUE)
            IN  \A k \in DOMAIN out :
                    LET mine == {i \in DOMAIN data : data[i].corp = out[k].key}
                    IN  /\ mine # {}
                        /\ out[k].start = MinOf({data[i].start : i \in mine})
                        /\ out[k].end = MaxOf({data[i].end : i \in mine})

RECURSIVE SumField(_, _, _)
SumField(data, I, field) ==
    IF I = {} THEN 0
    ELSE LET i == CHOOSE x \in I : TRUE
         IN  data[i][field] + SumField(data, I \ {i}, field)

\* the trans_ids of the aggregates with an index in I, in the order of data
RECURSIVE TransIdsOf(_, _, _)
TransIdsOf(data, I, i) ==
    IF i > Len(data) THEN <<>>
    ELSE (IF i \in I THEN data[i].trans_ids ELSE <<>>) \o TransIdsOf(data, I, i + 1)

NoRepeats(list) == Cardinality(Range(list)) = Len(list)

\* C20: in the roll-up every corporation's sum_earn, pre_tax_total, tax_to_pay
\* and cnt are the sums over the per-character aggregates of that corporation,
\* its trans_ids is the concatenation of theirs with every id once overall,
\* its tax_rates_used holds each distinct rate once, and every per-character
\* aggregate is counted under exactly one corporation.
RollUpSumsItsAggregates ==
    ComposerRuns =>
        \A r \in DOMAIN PerCharacterOutputs :
            LET data == PerCharacterOutputs[r]
                out  == CorpLevel(data, 1, <<>>, TRUE)
            IN  /\ \A i \in DOMAIN data :
                       Cardinality({k \in DOMAIN out : out[k].key = data[i].corp}) = 1
                /\ NoRepeats(TransIdsOf(out, DOMAIN out, 1))
                /\ Range(TransIdsOf(out, DOMAIN out, 1))
                       = Range(TransIdsOf(data, DOMAIN data, 1))
                /\ \A k \in DOMAIN out :
                       LET mine == {i \in DOMAIN data : data[i].corp = out[k].key}
                       IN  /\ out[k].sum_earn = SumField(data, mine, "sum_earn")
                           /\ out[k].pre_tax_total = SumField(data, mine, "pre_tax_total")
                           /\ out[k].tax_to_pay = SumField(data, mine, "tax_to_pay")
                           /\ out[k].cnt = SumField(data, mine, "cnt")
                           /\ out[k].trans_ids = TransIdsOf(data, mine, 1)
                           /\ NoRepeats(out[k].tax_rates_used)
                           /\ Range(out[k].tax_rates_used)
                                  = UNION {Range(data[i].tax_rates_used) : i \in mine}

TwoAggregatesShareOneRate ==
    /\ ComposerRuns
    /\ \E r \in DOMAIN PerCharacterOutputs :
          LET data == PerCharacterOutputs[r]
              out  == CorpLevel(data, 1, <<>>, TRUE)
          IN  /\ Len(data) = 2 /\ Len(out) = 1
              /\ data[1].tax_rates_used = data[2].tax_rates_used
              /\ Len(out[1].tax_rates_used) = 1
              /\ out[1].cnt = 2
              /\ Len(out[1].trans_ids) = 2

----
\* SpecTax: failures of a run

\* C22: the marking step of send_invoices is an insert-if-absent: reached
\* with a journal row that already has its processed marker, it raises no
\* error (and the row keeps its one marker)
MarkingNeverRaises == lastRun.status # "IntegrityError"

\* only rules over wallet transactions are in the plan
TransactionRulesOnly ==
    /\ plan.corporate_member_tax_included = <<>>
    /\ plan.corporate_structure_tax_included = <<>>

\* C23: a run of send_invoices that stopped after posting tax entries and
\* before writing the record and the markers is not followed by a run that
\* charges the same transactions again: with no journal row arrived since,
\* the next run posts nothing
FailedRunNotChargedAgain ==
    [][(/\ SendInvoicesCalled
        /\ TransactionRulesOnly
        /\ lastRun.status = "DoesNotExist"
        /\ lastRun.total_tax > 0
        /\ lastRun.char_journal = charJournal
        /\ lastRun.corp_journal = corpJournal)
       => corpLedger' = corpLedger]_vars

\* C28: every corporation key of the composer's result is a registered
\* corporation, also when a transaction is of a character without a main
ComposerKeysAreCorporations ==
    ComposerRuns => \A i \in DOMAIN Composed.taxes : Composed.taxes[i].key \in Corps

----
\* Properties of one aggregation run (SpecAgg)

\* the corporations whose transactions an aggregation run was handed
CorporationsOf(data) ==
    {CharacterInfo[data[i].character].corporation_id : i \in DOMAIN data}
PayoutRan == aggOut.rule \in {"char payout", "corp payout"}

\* C21: within one aggregation run of a payout rule, the corporation's
\* current rate is asked of ESI at most once per distinct corporation,
\* however many of its transactions the run processes
LookupOncePerCorporation ==
    PayoutRan => aggOut.result.lookups <= Cardinality(CorporationsOf(aggData))

\* a transaction whose pre-tax value cannot be computed: its amount is NULL
Malformed(r) == IsNull(r, "amount")
WellFormed(data) == SelectSeq(data, LAMBDA r : ~Malformed(r))

\* what the aggregation of a rule returns on a list of rows
AggregationOf(rule, data) ==
    IF rule = "ratting"
    THEN RattingProcess(RattingRule, [i \in DOMAIN data |-> CharValuesOf(data[i])],
                        1, NoAggregation)
    ELSE IF rule = "char payout"
    THEN CharPayoutProcess(CharPayoutRule, [i \in DOMAIN data |-> CharValuesOf(data[i])],
                           1, NoAggregation)
    ELSE CorpPayoutProcess(CorpPayoutRule, [i \in DOMAIN data |-> CorpRowOf(data[i])],
                           1, NoAggregation, TRUE)

\* C26: a malformed transaction never aborts an aggregation of the ratting,
\* character payout or corporation payout rule: the run raises nothing and
\* returns what it returns on the same rows without the malformed ones
MalformedNeverAborts ==
    aggOut.rule # None =>
        /\ aggOut.result.error = None
        /\ aggOut.result.output = AggregationOf(aggOut.rule, WellFormed(aggData)).output

----
\* SpecEsi: a run while ESI does not answer

\* a payout rule of the plan has a transaction to process, so the run asks
\* ESI for a corporation's current rate
LookupNeeded ==
    \/ \E j \in DOMAIN plan.character_taxes_included :
           CharPayoutGetPaymentData(plan.character_taxes_included[j],
                                    WindowStart, WindowEnd, plan.included_alliances) # {}
    \/ \E j \in DOMAIN plan.corporate_taxes_included :
           CorpPayoutGetPaymentData(plan.corporate_taxes_included[j],
                                    WindowStart, WindowEnd, {}) # {}

\* C27: when the ESI lookup of a corporation's rate fails during the
\* aggregation, the failure ends the run of send_invoices in error: no default
\* rate stands in, no ledger entry is posted, no balance changes, no invoice
\* record and no processed marker is created
LookupFailureStopsRun ==
    [][(SendInvoicesCalled /\ ComposerRuns /\ LookupNeeded /\ ~esiUp) =>
          /\ lastRun'.status = "EsiError"
          /\ lastRun'.total_tax = 0
          /\ corpLedger' = corpLedger
          /\ corpAccount' = corpAccount
          /\ userLedger' = userLedger
          /\ userAccount' = userAccount
          /\ unclaimed' = unclaimed
          /\ taxRecords' = taxRecords
          /\ charMarkers' = charMarkers
          /\ corpMarkers' = corpMarkers]_vars

\* C27 witness: a run stopped on the failed lookup although the plan has a
\* member rule that would have charged a corporation, and nothing was written
RunStoppedOnFailedLookup ==
    /\ lastRun.status = "EsiError"
    /\ lastRun.seq = nruns
    /\ ~esiUp
    /\ lastRun.char_selected \cup lastRun.corp_selected # {}
    /\ plan.corporate_structure_tax_included # <<>>
    /\ corpLedger = <<>>
    /\ taxRecords = <<>>

----
\* SpecConc: the balance snapshots of entries posted at the same time

Orderings(n) == {f \in [1..n -> 1..n] : \A i, j \in 1..n : f[i] = f[j] => i = j}
RECURSIVE RunningSum(_, _, _)
RunningSum(es, order, k) ==
    IF k = 0 THEN 0 ELSE es[order[k]].amount + RunningSum(es, order, k - 1)

\* the entries of an account can be put in an order in which the balance
\* stored with each is the sum of the amounts up to and including it
SnapshotsFollowSomeOrder(es) ==
    \E order \in Orderings(Len(es)) :
        \A k \in 1..Len(es) : es[order[k]].balance = RunningSum(es, order, k)

\* C25: whatever the interleaving of concurrent postings to one account, once
\* they have completed the snapshot of every entry is the account's balance
\* right after that entry was applied: some ordering of the account's entries
\* makes each stored balance the running sum of the amounts
SnapshotsAreRunningSums ==
    AllIdle =>
        /\ \A u \in AllUsers : SnapshotsFollowSomeOrder(EntriesOf(userLedger, u))
        /\ \A c \in Corps : SnapshotsFollowSomeOrder(EntriesOf(corpLedger, c))

----
\* SpecPay: the deposits check_for_payments posts

CheckForPaymentsCalled == payRuns' = payRuns + 1

\* C29: post_ledger_entry called with an explicit date (check_for_payments
\* hands it the payment's date) creates a ledger entry whose created
\* timestamp is that date
EntryCreatedAtGivenDate ==
    [][CheckForPaymentsCalled =>
          \A k \in DOMAIN payLast'.posted :
              LET p == payLast'.posted[k]
                  e == IF p.table = "user" THEN userLedger'[p.entry]
                                           ELSE corpLedger'[p.entry]
              IN  e.created = PayRow(p.id).date]_vars

\* a journal row check_for_payments is to post as a deposit
Eligible(r) ==
    /\ r.ref_type \in PaymentRefs
    /\ r.amount > 1
    /\ r.first_party \notin IgnoredCorpIds

\* the sender of the row can be credited: a corporation, or a character that
\* has a user
Resolvable(r) ==
    \/ r.ref_type = "corporation_account_withdrawal"
    \/ /\ r.first_party \in Characters
       /\ ownership[r.first_party] \in Users

\* C30: over any sequence of check_for_payments runs every eligible payment
\* of the bank corporation's journal is posted as a deposit exactly once: none
\* is posted twice, and none (of those whose sender can be credited) is left
\* unposted behind last_payment_datetime, where no later run looks for it,
\* because another payment of its batch could not be resolved
EveryPaymentPostedOnce ==
    \A id \in bankJournal :
        (Eligible(PayRow(id)) /\ Resolvable(PayRow(id))) =>
            /\ deposited[id] <= 1
            /\ PayRow(id).date <= lastPayment => deposited[id] = 1

----
\* SpecFlight: runs of the invoice task on several workers

InFlight(w) == flightPc[w] # "idle"

\* C24: two executions of the invoice task for one plan never overlap in
\* time: no two workers are inside send_invoices at once, so no two runs hold
\* the same transaction selected and unmarked and both charge for it
RunsNeverOverlap ==
    /\ \A v, w \in Workers : (InFlight(v) /\ InFlight(w)) => v = w
    /\ flightQueue + Cardinality({w \in Workers : InFlight(w)}) <= 1
    /\ onceLock <=> (flightQueue + Cardinality({w \in Workers : InFlight(w)}) = 1)

\* C24 witness: a run has charged and is about to write its markers, and an
\* apply_async made meanwhile was turned away
RunInFlightAndCallRefused ==
    /\ \E w \in Workers :
          /\ flightPc[w] = "mark"
          /\ flightFrame[w].total_tax > 0
          /\ flightFrame[w].char_selected \cup flightFrame[w].corp_selected # {}
    /\ flightRefused >= 1
    /\ taxRecords # <<>>
====
